---- MODULE Spec2Model ----
(***************************************************************************)
(* A model of the aoc2024 command-line program and of the solvers its      *)
(* properties are about.                                                   *)
(*                                                                         *)
(*   Spec      the command line: main, run, the argument helpers, Input    *)
(*   SpecVm    the day 17 computer (Computer::exec / exec_instr)            *)
(*   SpecMaze  the day 16 maze solver (MazeSolver::shortest_path)          *)
(*                                                                         *)
(* An Option<T> is a sequence of length at most one: None is <<>> and      *)
(* Some(x) is <<x>>.  A string is the sequence of its characters.          *)
(***************************************************************************)
EXTENDS Integers, Sequences, FiniteSets, TLC

VARIABLES
    \* ---- command line (main.rs)
    pc,         \* where main / run stands
    dayArg,     \* Option: what args.next() gave for the day
    partArg,    \* Option: what args.next() gave for the part
    fileArg,    \* Option: what args.next() gave for the input file
    day,        \* Option<u8>: the validated day
    part,       \* Option<Part>: 1 for Part::One, 2 for Part::Two
    fs,         \* Option: which paths File::open can open, as run finds them
    opens,      \* the paths Input::from_file was called with, in order
    input,      \* Option: the opened Input (its path and what reading it yields)
    stdout,     \* the lines written to standard output
    exit_code,  \* Option: the process's exit status
    error,      \* Option: the error main returned
    ran,        \* Option: the day module whose run was executed
    \* ---- day 17 (Computer)
    asm, registers, ip, output, jmp_flag, vm_pc,
    \* ---- day 16 (MazeSolver)
    maze, grid, ms_pc, ms_result, ms_nodes,
    \* ---- day 21 (KeypadTable)
    kp_code, kp_depth, kp_cost, kp_pc,
    \* ---- day 13 (ClawMachine)
    claw_machine, claw_offset, claw_solution, claw_tokens, claw_pc,
    \* ---- day 9 (AmphipodFileSystem::fragmented_checksum)
    raw_disk_map, checksum, checksum_index, disk_map_index, gap_j, segments_cursor, prev_result, counted, afs_pc,
    \* ---- day 19 (OnsenTowels)
    ot_patterns, ot_designs, ot_part, ot_matched, ot_cache, ot_result, ot_pc,
    \* ---- day 8 (SubsetGenerator)
    sg_m, sg_n, sg_indices, sg_yielded, sg_nones, sg_pc,
    \* ---- day 7 (SeqGenerator)
    sq_m, sq_n, sq_buf, sq_yielded, sq_nones, sq_pc,
    \* ---- day 4 (XmasWords::find_xmas)
    xw_visited, xw_acc, xw_total, xw_pc,
    \* ---- day 24 (CrossedWires)
    values, gates, output_wires, original_values, stack, cw_result, cw_pc,
    \* ---- day 9 (AmphipodFileSystem::defragmented_checksum)
    segments, new_segments, df_seg, df_checksum, df_pc,
    \* ---- day 5 (PrintIntstructions::validate_page_order)
    po_rules, po_update, po_do_fix, po_pages, po_i, po_valid, po_pc,
    \* ---- day 15 (Warehouse)
    wh_map, current_move_set, can_move, wh_pos, wh_inflated, wh_walls, wh_ids, wh_before, wh_from, wh_dir, wh_pc

cliVars  == <<pc, dayArg, partArg, fileArg, day, part, fs, opens, input,
              stdout, exit_code, error, ran>>
vmVars == <<asm, registers, ip, output, jmp_flag, vm_pc>>
mazeVars == <<maze, grid, ms_pc, ms_result, ms_nodes>>
keypadVars == <<kp_code, kp_depth, kp_cost, kp_pc>>
clawVars == <<claw_machine, claw_offset, claw_solution, claw_tokens, claw_pc>>
afsVars == <<raw_disk_map, checksum, checksum_index, disk_map_index, gap_j, segments_cursor, prev_result, counted, afs_pc>>
towelVars == <<ot_patterns, ot_designs, ot_part, ot_matched, ot_cache, ot_result, ot_pc>>
subsetVars == <<sg_m, sg_n, sg_indices, sg_yielded, sg_nones, sg_pc>>
seqVars == <<sq_m, sq_n, sq_buf, sq_yielded, sq_nones, sq_pc>>
xmasVars == <<xw_visited, xw_acc, xw_total, xw_pc>>
wiresVars == <<values, gates, output_wires, original_values, stack, cw_result, cw_pc>>
defragVars == <<segments, new_segments, df_seg, df_checksum, df_pc>>
pagesVars == <<po_rules, po_update, po_do_fix, po_pages, po_i, po_valid, po_pc>>
warehouseVars == <<wh_map, current_move_set, can_move, wh_pos, wh_inflated, wh_walls, wh_ids, wh_before, wh_from, wh_dir, wh_pc>>
vars == <<cliVars, vmVars, mazeVars, keypadVars, clawVars, afsVars,
        towelVars, subsetVars, seqVars, xmasVars, wiresVars,
        defragVars, pagesVars, warehouseVars>>

\* What the steps of one part of the program leave alone: the other parts.
notCli ==
    <<vmVars, mazeVars, keypadVars, clawVars, afsVars, towelVars,
        subsetVars, seqVars, xmasVars, wiresVars, defragVars,
        pagesVars, warehouseVars>>
notVm ==
    <<cliVars, mazeVars, keypadVars, clawVars, afsVars, towelVars,
        subsetVars, seqVars, xmasVars, wiresVars, defragVars,
        pagesVars, warehouseVars>>
notMaze ==
    <<cliVars, vmVars, keypadVars, clawVars, afsVars, towelVars,
        subsetVars, seqVars, xmasVars, wiresVars, defragVars,
        pagesVars, warehouseVars>>
notKeypad ==
    <<cliVars, vmVars, mazeVars, clawVars, afsVars, towelVars,
        subsetVars, seqVars, xmasVars, wiresVars, defragVars,
        pagesVars, warehouseVars>>
notClaw ==
    <<cliVars, vmVars, mazeVars, keypadVars, afsVars, towelVars,
        subsetVars, seqVars, xmasVars, wiresVars, defragVars,
        pagesVars, warehouseVars>>
notAfs ==
    <<cliVars, vmVars, mazeVars, keypadVars, clawVars, towelVars,
        subsetVars, seqVars, xmasVars, wiresVars, defragVars,
        pagesVars, warehouseVars>>
notTowel ==
    <<cliVars, vmVars, mazeVars, keypadVars, clawVars, afsVars,
        subsetVars, seqVars, xmasVars, wiresVars, defragVars,
        pagesVars, warehouseVars>>
notSubset ==
    <<cliVars, vmVars, mazeVars, keypadVars, clawVars, afsVars,
        towelVars, seqVars, xmasVars, wiresVars, defragVars, pagesVars,
        warehouseVars>>
notSeq ==
    <<cliVars, vmVars, mazeVars, keypadVars, clawVars, afsVars,
        towelVars, subsetVars, xmasVars, wiresVars, defragVars,
        pagesVars, warehouseVars>>
notXmas ==
    <<cliVars, vmVars, mazeVars, keypadVars, clawVars, afsVars,
        towelVars, subsetVars, seqVars, wiresVars, defragVars,
        pagesVars, warehouseVars>>
notWires ==
    <<cliVars, vmVars, mazeVars, keypadVars, clawVars, afsVars,
        towelVars, subsetVars, seqVars, xmasVars, defragVars,
        pagesVars, warehouseVars>>
notDefrag ==
    <<cliVars, vmVars, mazeVars, keypadVars, clawVars, afsVars,
        towelVars, subsetVars, seqVars, xmasVars, wiresVars, pagesVars,
        warehouseVars>>
notPages ==
    <<cliVars, vmVars, mazeVars, keypadVars, clawVars, afsVars,
        towelVars, subsetVars, seqVars, xmasVars, wiresVars,
        defragVars, warehouseVars>>
notWarehouse ==
    <<cliVars, vmVars, mazeVars, keypadVars, clawVars, afsVars,
        towelVars, subsetVars, seqVars, xmasVars, wiresVars,
        defragVars, pagesVars>>

None    == <<>>
Some(x) == <<x>>
Unwrap(o) == o[1]

(***************************************************************************)
(* Bounds of the model.                                                    *)
(***************************************************************************)
MaxArgLen == 3      \* longest command-line argument that is enumerated
MaxLines  == 2      \* most input lines a solver is given
MaxReg    == 9      \* largest initial register value of the day 17 computer
MaxProg   == 2      \* longest day 17 program (in instructions)
MazeW     == 4      \* columns inside the walls of a day 16 maze
MaxCode   == 2      \* longest day 21 keycode
MaxDepth  == 2      \* most day 21 robots at directional keypads
MaxCoord  == 2      \* largest coordinate of a day 13 button or prize
MaxDigit  == 3      \* largest digit of a day 9 disk map
MaxMapLen == 5      \* digits of a day 9 disk map
MaxPatterns  == 2   \* patterns of a day 19 input
MaxPatternLen == 2  \* bytes of a day 19 pattern
MaxDesigns   == 2   \* designs of a day 19 input
MaxDesignLen == 3   \* bytes of a day 19 design
MaxSetLen == 4      \* n of a SubsetGenerator
MaxNone   == 2      \* calls of next() that return None
MaxOps    == 3      \* m of a SeqGenerator
MaxSeqLen == 3      \* n of a SeqGenerator
MaxBytes  == 7      \* bytes the day 4 iterators visit
MaxGates  == 2      \* gates of a day 24 circuit over the few wires
MaxZ      == 65     \* gates of a day 24 circuit of z wires alone
MaxPage   == 2      \* largest page number of a day 5 input
MaxUpdate == 3      \* pages of a day 5 update
MaxBoxes      == 1      \* boxes in the room (day 15)
TallH         == 5      \* interior height of the one-column warehouse (day 15)

(***************************************************************************)
(* Command-line arguments: strings over a small alphabet that spells the   *)
(* days 0, 1, 2, 4, 5, 10..15, 20..25, numbers above 255, signs and junk.  *)
(***************************************************************************)
ArgChars == {"+", "-", "0", "1", "2", "4", "5", "x"}

RECURSIVE StringsOfLen(_, _)
StringsOfLen(S, n) ==
    IF n = 0 THEN {<<>>}
    ELSE {<<c>> \o s : c \in S, s \in StringsOfLen(S, n - 1)}

ArgStrings == UNION {StringsOfLen(ArgChars, n) : n \in 0..MaxArgLen}

DigitOf == [c \in {"0", "1", "2", "3", "4", "5", "6", "7", "8", "9"} |->
              CASE c = "0" -> 0 [] c = "1" -> 1 [] c = "2" -> 2 [] c = "3" -> 3
                [] c = "4" -> 4 [] c = "5" -> 5 [] c = "6" -> 6 [] c = "7" -> 7
                [] c = "8" -> 8 [] c = "9" -> 9]

U8Max == 255

(***************************************************************************)
(* str::parse::<u8>: an empty string and a lone sign are errors, a leading *)
(* "+" is skipped, a "-" is an invalid digit of an unsigned type, and the  *)
(* value is accumulated digit by digit with an overflow check.             *)
(***************************************************************************)
RECURSIVE ParseDigitsU8(_, _)
ParseDigitsU8(s, acc) ==
    IF s = <<>> THEN Some(acc)
    ELSE IF Head(s) \notin DOMAIN DigitOf THEN None
    ELSE LET n == acc * 10 + DigitOf[Head(s)]
         IN  IF n > U8Max THEN None ELSE ParseDigitsU8(Tail(s), n)

ParseU8(s) ==
    IF s = <<>> THEN None
    ELSE IF Len(s) = 1 /\ Head(s) \in {"+", "-"} THEN None
    ELSE IF Head(s) = "+" THEN ParseDigitsU8(Tail(s), 0)
    ELSE ParseDigitsU8(s, 0)

(***************************************************************************)
(* util/args.rs                                                            *)
(***************************************************************************)
Ok(v)  == [ok |-> TRUE, val |-> v]
Err(e) == [ok |-> FALSE, val |-> e]

LastDay == 24

\* A validate_day whose comparison is off by one: day 25 passes.
validate_day_off_by_one(d) ==
    IF d > LastDay + 1 THEN Err(<<"Argument", "InvalidDay", d>>) ELSE Ok(d)

validate_day(d) ==
    IF d > LastDay THEN Err(<<"Argument", "InvalidDay", d>>) ELSE Ok(d)

parse_day(arg) ==
    IF ParseU8(arg) = None THEN Err(<<"Argument", "InvalidDayInput", arg>>)
    ELSE Ok(Unwrap(ParseU8(arg)))

validate_part(p) ==
    CASE p = 1 -> Ok(1)
      [] p = 2 -> Ok(2)
      [] OTHER -> Err(<<"Argument", "PartOutOfRange", p>>)

parse_part(arg) ==
    IF ParseU8(arg) = None THEN Err(<<"Argument", "InvalidPartArgument", arg>>)
    ELSE Ok(Unwrap(ParseU8(arg)))

\* Option::ok_or
OkOr(o, e) == IF o = None THEN Err(e) ELSE Ok(Unwrap(o))

\* Option::or
OptionOr(o, other) == IF o = None THEN other ELSE o

\* construct_filename(day, part): "input/day_<day>-<part>.dat"
construct_filename(d, p) == <<"default", d, p>>

(***************************************************************************)
(* The solvers, as main sees them.                                         *)
(*                                                                         *)
(* What reading an Input yields is a sequence of lines, each well formed   *)
(* ("ok") or holding a token that is no integer where the day's grammar    *)
(* wants one ("badint"), and a flag: after these lines the underlying      *)
(* read fails (a directory opened as the input, a device error) instead    *)
(* of reporting the end of the file.  An input with no line at all is      *)
(* modelled only as one whose first read fails.                            *)
(***************************************************************************)
LineKinds == {"ok", "badint"}

RECURSIVE SeqsUpTo(_, _)
SeqsUpTo(S, n) ==
    IF n = 0 THEN {<<>>}
    ELSE SeqsUpTo(S, n - 1) \cup
         {s \o <<c>> : s \in {t \in SeqsUpTo(S, n - 1) : Len(t) = n - 1}, c \in S}

Contents ==
    {[lines |-> l, fails |-> f] : l \in SeqsUpTo(LineKinds, MaxLines), f \in BOOLEAN}
        \ {[lines |-> <<>>, fails |-> FALSE]}

\* main.rs 6-29: the day modules main declares
DeclaredModules == 0..23
\* day_24.rs and day_25.rs: solver modules main does not declare
UndeclaredModules == {24, 25}
SolverModules == DeclaredModules \cup UndeclaredModules

\* main.rs 45-70: the arms of run's match
Dispatched == (0..14) \cup (16..23)

\* Input::read_line / read_line_as_bytes_into (input.rs 20-41): what the
\* underlying read gave ("line", "eof": Ok(0), "fail": Err(_)) to an Option.
read_line(line_read) ==
    CASE line_read = "line" -> "Some"
      [] line_read = "eof"  -> "None"
      [] line_read = "fail" -> "None"

\* Input::read_all (input.rs 29-33): a failed read panics in unwrap().
read_all(line_read) ==
    CASE line_read = "fail" -> "panic"
      [] OTHER              -> "String"

\* What the day does with a token that is not an integer:
\*   day 5           parse::<u8>()?                       Error::ParseInt
\*   days 1, 2       parse().ok()? ends the iterator      the rest is dropped
\*   days 7, 10, 11, 13, 14, 17, 18, 21, 22   unwrap() / expect("a number")
\*   other days      the grammar has no integer token, or skips it (day 3)
OnBadInt(d) ==
    CASE d = 5 -> "ParseInt"
      [] d \in {1, 2} -> "truncate"
      [] d \in {7, 10, 11, 13, 14, 17, 18, 21, 22} -> "panic"
      [] OTHER -> "accept"

\* Days that read the first line only.
FirstLineOnly(d) == d \in {0, 9, 11}

\* What the day does when a read fails:
\*   days 1, 2, 4, 9, 12, 14, 16, 20   loop on read_line() /
\*                 read_line_as_bytes_into() until None: taken as the end
\*   day 0         read_line().ok_or(Error::InvalidInput)?
\*   days 3, 5     read_all(): unwrap() panics (day 5 after its rules loop)
\*   days 11, 13, 17, 19   read_line().expect(..) / unwrap()
\*   days 7, 8, 10, 18, 21, 22, 23   input.lines() items unwrapped: panic
\*   day 6         read_line_as_bytes(), which input.rs does not define
OnReadFail(d) ==
    CASE d \in {1, 2, 4, 9, 12, 14, 16, 20} -> {read_line("fail")}
      [] d = 0 -> {"InvalidInput"}
      [] d \in {3, 5} -> {read_all("fail")}
      [] d \in {11, 13, 17, 19} -> {"panic"}
      [] d \in {7, 8, 10, 18, 21, 22, 23} -> {"panic"}
      [] OTHER -> {"None", "panic"}

\* Whether the solver itself writes to standard output on a run that
\* succeeds: println! in ClawMachinesReader::next (13), print_if_match (14
\* part two), ReindeerMaze::print with verbose = true (16), print_state (17),
\* print_ram (18), moves_for_keycode (21), find_sell_sequence (22 part two),
\* find_largest_party (23 part two); day 7 prints each solvable equation.
DayWrites(d, p) ==
    CASE d \in {13, 16, 17, 18, 21} -> {TRUE}
      [] d \in {14, 22, 23} /\ p = 2 -> {TRUE}
      [] d = 7 -> {TRUE, FALSE}
      [] OTHER -> {FALSE}

Finished(kind, e, truncated) == [kind |-> kind, err |-> e, truncated |-> truncated]

\* The day's run over `content`, from line i on: "ok" (a result is returned),
\* "err" (run returns Err(e)) or "panic"; truncated: a result was computed
\* although a read failed.
RECURSIVE DayReads(_, _, _, _)
DayReads(d, content, i, onfail) ==
    IF i > Len(content.lines) THEN
        IF content.fails /\ (~FirstLineOnly(d) \/ i = 1) THEN
            CASE onfail = "None"  -> Finished("ok", None, TRUE)
              [] onfail = "panic" -> Finished("panic", None, FALSE)
              [] OTHER            -> Finished("err", Some(<<onfail>>), FALSE)
        ELSE Finished("ok", None, FALSE)
    ELSE IF FirstLineOnly(d) /\ i > 1 THEN Finished("ok", None, FALSE)
    ELSE IF content.lines[i] = "badint" THEN
        CASE OnBadInt(d) = "ParseInt" -> Finished("err", Some(<<"ParseInt">>), FALSE)
          [] OnBadInt(d) = "panic"    -> Finished("panic", None, FALSE)
          [] OnBadInt(d) = "truncate" -> Finished("ok", None, FALSE)
          [] OTHER                    -> DayReads(d, content, i + 1, onfail)
    ELSE DayReads(d, content, i + 1, onfail)

(***************************************************************************)
(* main.rs: main and run.                                                  *)
(***************************************************************************)
Paths == {"given", "default", "stdin"}

\* What the path names: the input_file argument, construct_filename's
\* input/day_<day>-<part>.dat, or /dev/stdin.
PathKind(path) ==
    IF path = <<"/dev/stdin">> THEN "stdin"
    ELSE IF Head(path) = "default" THEN "default"
    ELSE "given"

\* Input::from_file (input.rs 11-18)
from_file(path) ==
    IF Unwrap(fs)[PathKind(path)] THEN Ok(path)
    ELSE Err(<<"InputFileNotFound", path>>)

\* main returns Err(e): the error is reported on standard error and the
\* process exits with status 1.
Fail(e) ==
    /\ error' = Some(e)
    /\ exit_code' = Some(1)
    /\ pc' = "exit"

InitCli ==
    /\ pc = "main_day"
    /\ dayArg = None /\ partArg = None /\ fileArg = None
    /\ day = None /\ part = None
    /\ fs = None
    /\ opens = <<>>
    /\ input = None
    /\ stdout = <<>>
    /\ exit_code = None
    /\ error = None
    /\ ran = None

\* main.rs 83-87: the day argument
MainDay ==
    /\ pc = "main_day"
    /\ \E a \in {None} \cup {Some(s) : s \in ArgStrings} :
         LET r0 == OkOr(a, <<"Argument", "MissingArgument", "day">>)
             r1 == IF r0.ok THEN parse_day(r0.val) ELSE r0       \* and_then
             r  == IF r1.ok THEN validate_day(r1.val) ELSE r1    \* and_then
         IN  /\ dayArg' = a
             /\ IF r.ok
                THEN /\ day' = Some(r.val)
                     /\ pc' = "main_part"
                     /\ UNCHANGED <<error, exit_code>>
                ELSE /\ Fail(r.val)
                     /\ UNCHANGED day
    /\ UNCHANGED <<partArg, fileArg, part, fs, opens, input, stdout, ran>>
    /\ UNCHANGED notCli

\* main.rs 89-94: the part argument
MainPart ==
    /\ pc = "main_part"
    /\ \E a \in {None} \cup {Some(s) : s \in ArgStrings} :
         LET r0 == OkOr(OptionOr(a, Some(<<"0">>)),
                        <<"Argument", "MissingArgument", "part">>)
             r1 == IF r0.ok THEN parse_part(r0.val) ELSE r0      \* and_then
             r  == IF r1.ok THEN validate_part(r1.val) ELSE r1   \* and_then
         IN  /\ partArg' = a
             /\ IF r.ok
                THEN /\ part' = Some(r.val)
                     /\ pc' = "main_infile"
                     /\ UNCHANGED <<error, exit_code>>
                ELSE /\ Fail(r.val)
                     /\ UNCHANGED part
    /\ UNCHANGED <<dayArg, fileArg, day, fs, opens, input, stdout, ran>>
    /\ UNCHANGED notCli

\* main.rs 96-98: the optional input file, and the call of run
MainInfile ==
    /\ pc = "main_infile"
    /\ \E f \in {None, Some(<<"file">>)} : fileArg' = f
    /\ \E openable \in [Paths -> BOOLEAN] : fs' = Some(openable)
    /\ pc' = "run_open"
    /\ UNCHANGED <<dayArg, partArg, day, part, opens, input, stdout,
                   exit_code, error, ran>>
    /\ UNCHANGED notCli

\* A first path that is the default file even when a file is given.
FirstPath_ignores_argument ==
    construct_filename(Unwrap(day), Unwrap(part))

\* main.rs 40: input_file.unwrap_or_else(|| construct_filename(day, part))
FirstPath ==
    IF fileArg # None THEN Unwrap(fileArg)
    ELSE construct_filename(Unwrap(day), Unwrap(part))

\* main.rs 40: Input::from_file(first path)
RunOpen ==
    /\ pc = "run_open"
    /\ opens' = Append(opens, FirstPath)
    /\ LET r == from_file(FirstPath)
       IN  IF r.ok
           THEN /\ input' = Some(r.val)
                /\ pc' = "run_day"
           ELSE /\ input' = None
                /\ pc' = "run_open_stdin"
    /\ UNCHANGED <<dayArg, partArg, fileArg, day, part, fs, stdout,
                   exit_code, error, ran>>
    /\ UNCHANGED notCli

\* main.rs 41: .or_else(|_| Input::from_file(&"/dev/stdin"))?
RunOpenStdin ==
    /\ pc = "run_open_stdin"
    /\ opens' = Append(opens, <<"/dev/stdin">>)
    /\ LET r == from_file(<<"/dev/stdin">>)
       IN  IF r.ok
           THEN /\ input' = Some(r.val)
                /\ pc' = "run_day"
                /\ UNCHANGED <<error, exit_code>>
           ELSE /\ input' = None
                /\ Fail(r.val)
    /\ UNCHANGED <<dayArg, partArg, fileArg, day, part, fs, stdout, ran>>
    /\ UNCHANGED notCli

\* A `?` that lets an Err through to println!.
Question_swallows(r) ==
    CASE r.kind \in {"ok", "err"} ->
            /\ pc' = "run_print"
            /\ UNCHANGED <<error, exit_code>>
      [] OTHER ->
            /\ pc' = "exit"
            /\ exit_code' = Some(101)
            /\ error' = Some(<<"panic">>)

\* main.rs 70: the `?` on the day's result: Ok goes on to println!, Err is
\* returned from run and main; a panic aborts the process with status 101.
Question(r) ==
    CASE r.kind = "ok" ->
            /\ pc' = "run_print"
            /\ UNCHANGED <<error, exit_code>>
      [] r.kind = "err" -> Fail(Unwrap(r.err))
      [] OTHER ->
            /\ pc' = "exit"
            /\ exit_code' = Some(101)
            /\ error' = Some(<<"panic">>)

\* main.rs 45-70: the match on day, and the `?` on its result
RunDay ==
    /\ pc = "run_day"
    /\ LET d == Unwrap(day)
           p == Unwrap(part)
       IN  IF d \in Dispatched
           THEN \E content \in Contents, onfail \in OnReadFail(d) :
                  LET r == DayReads(d, content, 1, onfail)
                  IN  /\ ran' = Some([day |-> d, content |-> content, outcome |-> r])
                      /\ \E w \in (IF r.kind = "ok" THEN {} ELSE {FALSE})
                                    \cup DayWrites(d, p) :
                           stdout' = IF w THEN Append(stdout, <<"solver", d>>)
                                     ELSE stdout
                      /\ Question(r)
           ELSE /\ Fail(<<"DayNotImplemented", d>>)
                /\ UNCHANGED <<ran, stdout>>
    /\ UNCHANGED <<dayArg, partArg, fileArg, day, part, fs, opens, input>>
    /\ UNCHANGED notCli

\* main.rs 71-75: println!("{}", result); Ok(())
RunPrint ==
    /\ pc = "run_print"
    /\ stdout' = Append(stdout, <<"result", Unwrap(day)>>)
    /\ exit_code' = Some(0)
    /\ pc' = "exit"
    /\ UNCHANGED <<dayArg, partArg, fileArg, day, part, fs, opens, input,
                   error, ran>>
    /\ UNCHANGED notCli

NextCli ==
    \/ MainDay
    \/ MainPart
    \/ MainInfile
    \/ RunOpen
    \/ RunOpenStdin
    \/ RunDay
    \/ RunPrint

(***************************************************************************)
(* Day 17: the computer.  Registers are i64; the model keeps their values   *)
(* within 32 bits.                                                         *)
(***************************************************************************)
Register == {"A", "B", "C"}

\* Arg::literal / Arg::combo (day_17.rs 96-110); combo(7) panics
\* (an Arg is a record of both variants' fields; kind says which one counts)
literal(arg) == [kind |-> "Literal", val |-> arg, reg |-> "-"]

combo(arg) ==
    CASE arg \in 0..3 -> [kind |-> "Literal", val |-> arg, reg |-> "-"]
      [] arg = 4 -> [kind |-> "Register", val |-> 0, reg |-> "A"]
      [] arg = 5 -> [kind |-> "Register", val |-> 0, reg |-> "B"]
      [] arg = 6 -> [kind |-> "Register", val |-> 0, reg |-> "C"]

\* Arg::value (day_17.rs 112-117)
value(arg, regs) ==
    IF arg.kind = "Register" THEN regs[arg.reg] ELSE arg.val

\* Instr::new (day_17.rs 133-146)
InstrNew(opcode, arg) ==
    CASE opcode = 0 -> [op |-> "Adv", arg |-> combo(arg)]
      [] opcode = 1 -> [op |-> "Bxl", arg |-> literal(arg)]
      [] opcode = 2 -> [op |-> "Bst", arg |-> combo(arg)]
      [] opcode = 3 -> [op |-> "Jnz", arg |-> literal(arg \div 2)]
      [] opcode = 4 -> [op |-> "Bxc", arg |-> literal(arg)]
      [] opcode = 5 -> [op |-> "Out", arg |-> combo(arg)]
      [] opcode = 6 -> [op |-> "Bdv", arg |-> combo(arg)]
      [] opcode = 7 -> [op |-> "Cdv", arg |-> combo(arg)]

ComboOpcodes == {0, 2, 5, 6, 7}

\* The instructions disassemble can produce without panicking.
Instrs ==
    {InstrNew(o, a) : o \in ComboOpcodes, a \in 0..6}
        \cup {InstrNew(o, a) : o \in (0..7) \ ComboOpcodes, a \in 0..7}

\* i64 `/` with a positive divisor: the quotient is truncated toward zero.
TruncDiv(a, b) == IF a >= 0 THEN a \div b ELSE -((-a) \div b)

\* i64 `%`: the remainder has the sign of the dividend.
RustRem(a, b) == a - b * TruncDiv(a, b)

\* `x as u8`: the low eight bits.
AsU8(x) == x % 256

\* i64 `^` on two's complement values.
RECURSIVE XorNat(_, _)
XorNat(a, b) ==
    IF a = 0 THEN b
    ELSE IF b = 0 THEN a
    ELSE 2 * XorNat(a \div 2, b \div 2) + (IF a % 2 = b % 2 THEN 0 ELSE 1)

BitNot(x) == -x - 1

Xor(a, b) ==
    CASE a >= 0 /\ b >= 0 -> XorNat(a, b)
      [] a <  0 /\ b >= 0 -> BitNot(XorNat(BitNot(a), b))
      [] a >= 0 /\ b <  0 -> BitNot(XorNat(a, BitNot(b)))
      [] OTHER            -> XorNat(BitNot(a), BitNot(b))

\* The width of a register (day_17.rs 166: Registers = [i64; 3]).
I64Bits == 64

\* left / 2_i64.pow(v as u32), the outcomes a build can produce (None: panic).
\*   v < 0:    `as u32` gives 2^32 - |v|; the power overflows (a panic in a
\*             debug build) or wraps to 0 (a division by zero, a panic, in a
\*             release build);
\*   v >= 64:  the same;
\*   v = 63:   the power overflows in a debug build and wraps to i64::MIN in a
\*             release build, where the quotient of a smaller left is 0;
\*   v < 63:   the quotient truncated toward zero, which is 0 once 2^v is
\*             beyond the model's values of left.
DivPow2(left, v) ==
    IF v < 0 \/ v >= I64Bits THEN {None}
    ELSE IF v = I64Bits - 1 THEN {None, Some(0)}
    ELSE IF v >= 31 THEN {Some(0)}
    ELSE {Some(TruncDiv(left, 2 ^ v))}

\* The registers and output after exec_instr (day_17.rs 244-337); jump is
\* Some(target) when jnz jumps, panic when the instruction panics.
Effect(regs, out, jump, panic) ==
    [regs |-> regs, out |-> out, jump |-> jump, panic |-> panic]

Dv(target, arg, regs, out) ==
    {IF res = None THEN Effect(regs, out, None, TRUE)
     ELSE Effect([regs EXCEPT ![target] = Unwrap(res)], out, None, FALSE) :
        res \in DivPow2(regs["A"], value(arg, regs))}

\* exec_instr (day_17.rs 244-337): the set of its outcomes
exec_instr(instr, regs, out) ==
    CASE instr.op = "Adv" -> Dv("A", instr.arg, regs, out)
      [] instr.op = "Bxl" ->
            {Effect([regs EXCEPT !["B"] = Xor(regs["B"], value(instr.arg, regs))],
                    out, None, FALSE)}
      [] instr.op = "Bst" ->
            {Effect([regs EXCEPT !["B"] = RustRem(value(instr.arg, regs), 8)],
                    out, None, FALSE)}
      [] instr.op = "Jnz" ->
            IF regs["A"] # 0
            THEN {Effect(regs, out, Some(value(instr.arg, regs) \div 2), FALSE)}
            ELSE {Effect(regs, out, None, FALSE)}
      [] instr.op = "Bxc" ->
            {Effect([regs EXCEPT !["B"] = Xor(regs["B"], regs["C"])], out, None, FALSE)}
      [] instr.op = "Out" ->
            {Effect(regs, Append(out, AsU8(RustRem(value(instr.arg, regs), 8))),
                    None, FALSE)}
      [] instr.op = "Bdv" -> Dv("B", instr.arg, regs, out)
      [] instr.op = "Cdv" -> Dv("C", instr.arg, regs, out)

\* The register values a run starts from: what parse::<i64> can read.
RegVals == {-MaxReg, -1, 0, 2, MaxReg, I64Bits}

Programs == SeqsUpTo(Instrs, MaxProg) \ {<<>>}

\* Computer::from_input / Computer::new (day_17.rs 183-217)
InitVm ==
    /\ asm \in Programs
    /\ registers \in [Register -> RegVals]
    /\ ip = 0
    /\ output = <<>>
    /\ jmp_flag = FALSE
    /\ vm_pc = "exec"

\* Most output values a run is followed for (a program may loop for ever).
MaxOut == 3

\* Computer::exec (day_17.rs 339-349): one turn of the loop
VmStep ==
    /\ vm_pc = "exec"
    /\ ip < Len(asm)
    /\ Len(output) < MaxOut
    /\ \E e \in exec_instr(asm[ip + 1], registers, output) :
           IF e.panic
           THEN /\ vm_pc' = "panicked"
                /\ UNCHANGED <<registers, output, ip, jmp_flag>>
           ELSE /\ registers' = e.regs
                /\ output' = e.out
                /\ ip' = IF e.jump # None THEN Unwrap(e.jump) ELSE ip + 1
                /\ jmp_flag' = FALSE
                /\ vm_pc' = "exec"
    /\ UNCHANGED asm
    /\ UNCHANGED notVm

\* Computer::exec: asm.get(ip) is None, the loop ends
VmHalt ==
    /\ vm_pc = "exec"
    /\ ip >= Len(asm)
    /\ vm_pc' = "halted"
    /\ UNCHANGED <<asm, registers, ip, output, jmp_flag>>
    /\ UNCHANGED notVm

NextVm ==
    \/ VmStep
    \/ VmHalt

(***************************************************************************)
(* Day 16: the maze solver.  A maze is a grid enclosed by walls; a         *)
(* position is <<x, y>>, x growing to the East and y to the South.         *)
(***************************************************************************)
Dirs == <<"East", "West", "North", "South">>     \* in the order of Dir's variants
DirSet == {Dirs[i] : i \in 1..4}

\* `dir as usize`
DirIndex(d) == CHOOSE i \in 0..3 : Dirs[i + 1] = d

\* Dir::opposite (day_16.rs 22-29)
opposite(d) ==
    CASE d = "East" -> "West"
      [] d = "West" -> "East"
      [] d = "North" -> "South"
      [] d = "South" -> "North"

\* Dir::as_vec (day_16.rs 31-38)
as_vec(d) ==
    CASE d = "East" -> <<1, 0>>
      [] d = "West" -> <<-1, 0>>
      [] d = "North" -> <<0, -1>>
      [] d = "South" -> <<0, 1>>

\* Add for Vec2 (util/vec2.rs 138-161)
Vec2Add(a, b) == <<a[1] + b[1], a[2] + b[2]>>

MazeRows == 1..2
Interior == {<<x, y>> : x \in 1..MazeW, y \in MazeRows}

\* What MazeInputReader::read (day_16.rs 79-115) gives for a maze enclosed by
\* walls that has one S and one E: the open tiles, the start and the end.
Mazes ==
    {[open |-> o, start |-> st, end |-> en] :
        o \in SUBSET Interior, st \in Interior, en \in Interior}

WellFormed(m) == m.start \in m.open /\ m.end \in m.open /\ m.start # m.end

Nodes(m) == m.open \X DirSet

\* i64::MAX, the cost of Node::empty (day_16.rs 128-134); the model's integers
\* are 32 bits wide, and no path of the model costs that much.
I64_MAX == 2147483647

\* Node::empty (day_16.rs 128-134)
EmptyNode == [cost |-> I64_MAX, prev |-> <<>>, closed |-> FALSE]

\* MazeSolver::new (day_16.rs 159-173): a Cell of four empty nodes per open tile
MazeSolverNew(m) == [n \in Nodes(m) |-> EmptyNode]

\* MazeSolver::update_cost (day_16.rs 175-191)
update_cost(g, node_ref, prev, new_cost) ==
    LET cost == g[node_ref].cost
        g1 == IF new_cost < cost
              THEN [g EXCEPT ![node_ref].cost = new_cost, ![node_ref].prev = <<>>]
              ELSE g
    IN  IF new_cost <= cost /\ prev # None
        THEN [g1 EXCEPT ![node_ref].prev = Append(@, Unwrap(prev))]
        ELSE g1

\* The place of a node in min_cost_node's scan: rows, then columns, then the
\* four nodes of the cell.
ScanIndex(n) == (n[1][2] * (MazeW + 2) + n[1][1]) * 4 + DirIndex(n[2])

\* MazeSolver::min_cost_node (day_16.rs 193-216): the first node of the scan
\* among the open nodes of least cost; with no open node the scan ends at
\* (0, 0), a wall, and unwrap() panics (None here).
min_cost_node(g) ==
    LET cand == {n \in DOMAIN g : ~g[n].closed /\ g[n].cost < I64_MAX}
    IN  IF cand = {} THEN None
        ELSE Some(CHOOSE n \in cand :
                    \A o \in cand :
                        \/ g[n].cost < g[o].cost
                        \/ g[n].cost = g[o].cost /\ ScanIndex(n) <= ScanIndex(o))

\* The step cost of shortest_path's match (day_16.rs 239-243); None: continue
StepCost(dir, node_dir) ==
    IF dir = node_dir THEN Some(1)
    ELSE IF dir = opposite(node_dir) THEN None
    ELSE Some(1001)

\* shortest_path's for loop (day_16.rs 231-246), from direction i on
RECURSIVE Relax(_, _, _, _, _)
Relax(g, pos, node_dir, cost, i) ==
    IF i > 4 THEN g
    ELSE LET dir == Dirs[i]
             next_pos == Vec2Add(pos, as_vec(dir))
             step == StepCost(dir, node_dir)
         IN  IF <<next_pos, dir>> \notin DOMAIN g \/ step = None
             THEN Relax(g, pos, node_dir, cost, i + 1)
             ELSE Relax(update_cost(g, <<next_pos, dir>>, Some(<<pos, node_dir>>),
                                    Unwrap(step) + cost),
                        pos, node_dir, cost, i + 1)

InitMaze ==
    /\ maze \in {m \in Mazes : WellFormed(m)}
    /\ grid = MazeSolverNew(maze)
    /\ ms_pc = "new"
    /\ ms_result = None
    /\ ms_nodes = {}

\* shortest_path (day_16.rs 219): the start node, facing East, costs 0
MsStart ==
    /\ ms_pc = "new"
    /\ grid' = update_cost(grid, <<maze.start, "East">>, None, 0)
    /\ ms_pc' = "loop"
    /\ UNCHANGED <<maze, ms_result, ms_nodes>>
    /\ UNCHANGED notMaze

\* shortest_path (day_16.rs 221-247): one turn of the loop
MsStep ==
    /\ ms_pc = "loop"
    /\ LET m == min_cost_node(grid)
       IN  IF m = None
           THEN /\ ms_pc' = "panicked"
                /\ UNCHANGED <<grid, ms_result>>
           ELSE LET n == Unwrap(m)
                    cost == grid[n].cost
                    closed == [grid EXCEPT ![n].closed = TRUE]
                IN  IF n[1] = maze.end
                    THEN /\ grid' = closed
                         /\ ms_result' = Some(cost)
                         /\ ms_pc' = "done"
                    ELSE /\ grid' = Relax(closed, n[1], n[2], cost, 1)
                         /\ ms_pc' = "loop"
                         /\ UNCHANGED ms_result
    /\ UNCHANGED <<maze, ms_nodes>>
    /\ UNCHANGED notMaze

\* all_shortest_paths_nodes' while loop (day_16.rs 263-269): backtrace is a
\* stack, popped at its end
RECURSIVE Backtrace(_, _, _)
Backtrace(g, backtrace, visited) ==
    IF backtrace = <<>> THEN visited
    ELSE LET n == backtrace[Len(backtrace)]
         IN  Backtrace(g, SubSeq(backtrace, 1, Len(backtrace) - 1) \o g[n].prev,
                       visited \cup {n[1]})

\* MazeSolver::all_shortest_paths_nodes (day_16.rs 250-273): the prev lists
\* of the four nodes of the end cell are followed back
all_shortest_paths_nodes(g, end) ==
    Backtrace(g,
              g[<<end, Dirs[1]>>].prev \o g[<<end, Dirs[2]>>].prev
                  \o g[<<end, Dirs[3]>>].prev \o g[<<end, Dirs[4]>>].prev,
              {end})

\* find_all_shortest_paths_nodes (day_16.rs 358-368), after shortest_path
\* has returned; a Vec2 of the result is one tile, visited being a set
MsAllPaths ==
    /\ ms_pc = "done"
    /\ ms_nodes' = all_shortest_paths_nodes(grid, maze.end)
    /\ ms_pc' = "traced"
    /\ UNCHANGED <<maze, grid, ms_result>>
    /\ UNCHANGED notMaze

NextMaze ==
    \/ MsStart
    \/ MsStep
    \/ MsAllPaths

(***************************************************************************)
(* Day 21: the keypads.  A numeric key is 0..9 or 10 (the A key); a        *)
(* position is <<x, y>>, y growing downwards.                              *)
(***************************************************************************)
\* Keypad::None in KeypadTable::new's grid
NoKey == -1

\* KeypadTable::new (day_21.rs 86-91): the rows of the numeric keypad
keypad ==
    << <<7, 8, 9>>,
       <<4, 5, 6>>,
       <<1, 2, 3>>,
       <<NoKey, 0, 10>> >>

\* KeypadTable::key_pos (day_21.rs 114-121)
key_pos(key) ==
    CHOOSE pos \in (0..2) \X (0..3) : keypad[pos[2] + 1][pos[1] + 1] = key

\* Sub for Vec2
Vec2Sub(a, b) == <<a[1] - b[1], a[2] - b[2]>>

\* KeypadTable::init_keypad_table (day_21.rs 102-112)
keypad_table(from, to) == Vec2Sub(key_pos(to), key_pos(from))

\* enum Dir (day_21.rs 16-23)
Dir == {"Up", "Down", "Left", "Right", "A"}

\* KeypadTable::init_handmade_dir_table (day_21.rs 126-149): the entries
\* that are set; the others stay empty
handmade(from, to) ==
    CASE from = "A" /\ to = "Up" -> <<"Left">>
      [] from = "A" /\ to = "Left" -> <<"Down", "Left", "Left">>
      [] from = "A" /\ to = "Right" -> <<"Down">>
      [] from = "A" /\ to = "Down" -> <<"Left", "Down">>
      [] from = "Up" /\ to = "A" -> <<"Right">>
      [] from = "Up" /\ to = "Left" -> <<"Down", "Left">>
      [] from = "Up" /\ to = "Right" -> <<"Down", "Right">>
      [] from = "Up" /\ to = "Down" -> <<"Down">>
      [] from = "Left" /\ to = "A" -> <<"Right", "Right", "Up">>
      [] from = "Left" /\ to = "Up" -> <<"Right", "Up">>
      [] from = "Left" /\ to = "Right" -> <<"Right", "Right">>
      [] from = "Left" /\ to = "Down" -> <<"Right">>
      [] from = "Right" /\ to = "A" -> <<"Up">>
      [] from = "Right" /\ to = "Up" -> <<"Left", "Up">>
      [] from = "Right" /\ to = "Left" -> <<"Left", "Left">>
      [] from = "Right" /\ to = "Down" -> <<"Left">>
      [] from = "Down" /\ to = "A" -> <<"Up", "Right">>
      [] from = "Down" /\ to = "Up" -> <<"Up">>
      [] from = "Down" /\ to = "Left" -> <<"Left">>
      [] from = "Down" /\ to = "Right" -> <<"Right">>
      [] OTHER -> <<>>

\* init_handmade_dir_table (day_21.rs 151-155): every entry ends with A
dir_table(from, to) == Append(handmade(from, to), "A")

Abs(x) == IF x < 0 THEN -x ELSE x

\* KeypadTable::push_n_arrows (day_21.rs 160-164)
push_n_arrows(v, arrow, n) == v \o [i \in 1..n |-> arrow]

\* KeypadTable::move_vertical (day_21.rs 166-168)
move_vertical(v, pos) ==
    push_n_arrows(v, IF pos[2] > 0 THEN "Down" ELSE "Up", Abs(pos[2]))

\* KeypadTable::move_horizontal (day_21.rs 170-176)
move_horizontal(v, pos) ==
    push_n_arrows(v, IF pos[1] > 0 THEN "Right" ELSE "Left", Abs(pos[1]))

\* KeypadTable::count_moves (day_21.rs 237-261).  The cache holds, under
\* (from, to, level), the total count_moves returned for these arguments,
\* so a hit gives what the call would.
RECURSIVE count_moves(_, _, _)
RECURSIVE SumMoves(_, _, _)
count_moves(from, to, level) ==
    LET path == dir_table(from, to)
    IN  IF level = 0 THEN Len(path) ELSE SumMoves(path, "A", level - 1)

\* The loops of moves_at_level and count_moves: the moves of each key of
\* path, from the key before it
SumMoves(path, prev, level) ==
    IF path = <<>> THEN 0
    ELSE count_moves(prev, Head(path), level)
            + SumMoves(Tail(path), Head(path), level)

\* KeypadTable::moves_at_level (day_21.rs 178-189)
moves_at_level(path, depth) == SumMoves(path, "A", depth - 1)

\* u64::MAX, the cost of a path over the gap (day_21.rs 212); the model's
\* integers are 32 bits wide, and no cost of the model is that large.
U64_MAX == 2147483647

\* A minimum that is always its first argument.
Min2_takes_first(a, b) == a

\* c1.min(c2) (day_21.rs 231)
Min2(a, b) == IF a <= b THEN a ELSE b

\* KeypadTable::keypad_path (day_21.rs 191-235)
RECURSIVE keypad_path(_, _, _, _)
keypad_path(at, remaining, path, depth) ==
    IF remaining = <<>> THEN moves_at_level(path, depth)
    ELSE LET first == Head(remaining)
             tail == Tail(remaining)
             path_vec == keypad_table(at, first)
             from_pos == key_pos(at)
             c1 == IF from_pos[1] = 0 /\ from_pos[2] + path_vec[2] = 3
                   THEN U64_MAX
                   ELSE keypad_path(first, tail,
                            Append(move_horizontal(move_vertical(path, path_vec),
                                                   path_vec), "A"),
                            depth)
             c2 == IF from_pos[2] = 3 /\ from_pos[1] + path_vec[1] = 0
                   THEN U64_MAX
                   ELSE keypad_path(first, tail,
                            Append(move_vertical(move_horizontal(path, path_vec),
                                                 path_vec), "A"),
                            depth)
         IN  Min2(c1, c2)

\* The keys the keycodes of the model are made of: keys of the left column,
\* of the bottom row and of the opposite corner.
CodeKeys == {0, 1, 7, 9, 10}

Keycodes == SeqsUpTo(CodeKeys, MaxCode)

InitKeypad ==
    /\ kp_code \in Keycodes
    /\ kp_depth \in 1..MaxDepth
    /\ kp_cost = None
    /\ kp_pc = "call"

\* moves_for_keycode (day_21.rs 294-297): keypad_path(Key(0xA), code, [], depth)
KeypadPath ==
    /\ kp_pc = "call"
    /\ kp_cost' = Some(keypad_path(10, kp_code, <<>>, kp_depth))
    /\ kp_pc' = "done"
    /\ UNCHANGED <<kp_code, kp_depth>>
    /\ UNCHANGED notKeypad

NextKeypad ==
    \/ KeypadPath

(***************************************************************************)
(* Day 13: the claw machines.                                              *)
(***************************************************************************)
\* i64 `/`, the quotient truncated toward zero (b # 0)
IntDiv(a, b) ==
    IF (a >= 0) = (b > 0) THEN Abs(a) \div Abs(b) ELSE -(Abs(a) \div Abs(b))

\* i64 `%`, the remainder with the sign of the dividend (b # 0)
IntRem(a, b) == a - b * IntDiv(a, b)

\* checked_int_div (util/math.rs 1-7)
checked_int_div(a, b) ==
    IF b = 0 \/ IntRem(a, b) # 0 THEN None ELSE Some(IntDiv(a, b))

\* ClawMachine::solve_with_offset (day_13.rs 116-124)
solve_with_offset(m, offset) ==
    LET p == Vec2Add(m.prize, offset)
        px == p[1]
        py == p[2]
        ax == m.button_a[1]
        ay == m.button_a[2]
        bx == m.button_b[1]
        by == m.button_b[2]
        a == checked_int_div(py * bx - px * by, ay * bx - ax * by)
    IN  IF a = None THEN None                                   \* and_then
        ELSE LET b == checked_int_div(px - Unwrap(a) * ax, bx)
             IN  IF b = None THEN None                          \* map
                 ELSE Some(<<Unwrap(a), Unwrap(b)>>)

\* The closure of Arcade::solve_with_offset (day_13.rs 139-147): the tokens
\* of one machine
Tokens(solution) ==
    IF solution = None THEN 0
    ELSE Unwrap(solution)[1] * 3 + Unwrap(solution)[2] * 1

\* What read_vec2 (day_13.rs 22-52) can read: parse::<i64>
Coords == (-MaxCoord)..MaxCoord
Vec2s == Coords \X Coords

InitClaw ==
    /\ claw_machine \in [button_a : Vec2s, button_b : Vec2s, prize : Vec2s]
    /\ claw_offset \in {<<0, 0>>, <<MaxCoord, MaxCoord>>}
    /\ claw_solution = None
    /\ claw_tokens = 0
    /\ claw_pc = "call"

\* Arcade::solve_with_offset (day_13.rs 138-149), for one machine
ClawSolve ==
    /\ claw_pc = "call"
    /\ claw_solution' = solve_with_offset(claw_machine, claw_offset)
    /\ claw_tokens' = Tokens(solve_with_offset(claw_machine, claw_offset))
    /\ claw_pc' = "done"
    /\ UNCHANGED <<claw_machine, claw_offset>>
    /\ UNCHANGED notClaw

NextClaw ==
    \/ ClawSolve


(***************************************************************************)
(* Day 9, part one (src/aoc2024/src/day_9.rs).  raw_disk_map is the line   *)
(* of digits, each byte less '0' (AmphipodFileSystem::new); the digit at   *)
(* the 0-based index i is raw_disk_map[i + 1] here.  fragmented_checksum   *)
(* walks the map from the front and pulls blocks from the back through a   *)
(* SegmentsBackCursor.  counted is the history of the terms the code adds  *)
(* to checksum: counted[p + 1] is the file id it multiplied by position p. *)
(* prev_result is the value of the latest call of prev.                    *)
(***************************************************************************)
NoCursor == [disk_map_index |-> 0, remaining |-> 0]

At(disk_map, i) == disk_map[i + 1]

\* SegmentsBackCursor::new.  The test is on the last DIGIT, not on the last
\* index.  len() - 1 on an empty map, and len() - 2 on a map of one digit,
\* underflow usize: a panic in a debug build, and an index out of bounds (a
\* panic too) in a release build.  None stands for the panic.
SegmentsBackCursor_new(disk_map) ==
    IF Len(disk_map) = 0 THEN None
    ELSE LET index == IF At(disk_map, Len(disk_map) - 1) % 2 = 0
                      THEN Len(disk_map) - 1
                      ELSE Len(disk_map) - 2
         IN  IF index < 0 THEN None
             ELSE Some([disk_map_index |-> index, remaining |-> At(disk_map, index)])

\* The loop of SegmentsBackCursor::prev: step back two indexes at a time to one
\* whose digit is positive.  found is FALSE when `return None` leaves the loop;
\* the index keeps the steps already made.
RECURSIVE PrevLoop(_, _)
PrevLoop(disk_map, index) ==
    LET next_index == index - 2
    IN  IF next_index < 0
        THEN [found |-> FALSE, disk_map_index |-> index, remaining |-> 0]
        ELSE IF At(disk_map, next_index) > 0
             THEN [found |-> TRUE, disk_map_index |-> next_index,
                   remaining |-> At(disk_map, next_index)]
             ELSE PrevLoop(disk_map, next_index)

\* SegmentsBackCursor::prev: the returned Option and the cursor afterwards.
prev(disk_map, cursor) ==
    IF cursor.disk_map_index = 0 /\ cursor.remaining = 0
    THEN [result |-> None, cursor |-> cursor]
    ELSE LET at == IF cursor.remaining <= 0
                   THEN PrevLoop(disk_map, cursor.disk_map_index)
                   ELSE [found |-> TRUE, disk_map_index |-> cursor.disk_map_index,
                         remaining |-> cursor.remaining]
         IN  IF ~at.found
             THEN [result |-> None,
                   cursor |-> [disk_map_index |-> at.disk_map_index, remaining |-> 0]]
             ELSE [result |-> Some(at.disk_map_index),
                   cursor |-> [disk_map_index |-> at.disk_map_index,
                               remaining |-> at.remaining - 1]]

\* the sum of (base + i) * file_id for i in 0..length
RECURSIVE BlocksChecksum(_, _, _)
BlocksChecksum(base, length, file_id) ==
    IF length = 0 THEN 0
    ELSE (base + length - 1) * file_id + BlocksChecksum(base, length - 1, file_id)

\* SegmentsBackCursor::reminder_checksum
reminder_checksum(cursor, base_index) ==
    BlocksChecksum(base_index, cursor.remaining, cursor.disk_map_index \div 2)

Repeat(x, n) == [i \in 1..n |-> x]

Digits   == 0..MaxDigit
DiskMaps == UNION {[1..n -> Digits] : n \in 0..MaxMapLen}

InitAfs ==
    /\ raw_disk_map \in DiskMaps
    /\ checksum = 0 /\ checksum_index = 0 /\ disk_map_index = 0 /\ gap_j = 0
    /\ segments_cursor = NoCursor /\ prev_result = None /\ counted = <<>>
    /\ afs_pc = "new"

\* fragmented_checksum up to the loop: SegmentsBackCursor::new
AfsNew ==
    /\ afs_pc = "new"
    /\ LET c == SegmentsBackCursor_new(raw_disk_map)
       IN  IF c = None
           THEN afs_pc' = "panic" /\ UNCHANGED segments_cursor
           ELSE afs_pc' = "loop" /\ segments_cursor' = Unwrap(c)
    /\ UNCHANGED <<raw_disk_map, checksum, checksum_index, disk_map_index, gap_j,
                   prev_result, counted>>
    /\ UNCHANGED notAfs

\* The end of the loop, by `break` or by the end of the range, and the
\* returned sum with reminder_checksum.
AfsReturn ==
    /\ afs_pc = "loop"
    /\ \/ disk_map_index >= Len(raw_disk_map)
       \/ disk_map_index = segments_cursor.disk_map_index
    /\ checksum' = checksum + reminder_checksum(segments_cursor, checksum_index)
    /\ counted' = counted \o Repeat(segments_cursor.disk_map_index \div 2,
                                     segments_cursor.remaining)
    /\ afs_pc' = "done"
    /\ UNCHANGED <<raw_disk_map, checksum_index, disk_map_index, gap_j,
                   segments_cursor, prev_result>>
    /\ UNCHANGED notAfs

\* One iteration on a file: the arm `0 =>`.
AfsFile ==
    /\ afs_pc = "loop"
    /\ disk_map_index < Len(raw_disk_map)
    /\ disk_map_index # segments_cursor.disk_map_index
    /\ disk_map_index % 2 = 0
    /\ LET file_id     == disk_map_index \div 2
           file_length == At(raw_disk_map, disk_map_index)
       IN  /\ checksum' = checksum + BlocksChecksum(checksum_index, file_length, file_id)
           /\ checksum_index' = checksum_index + file_length
           /\ counted' = counted \o Repeat(file_id, file_length)
    /\ disk_map_index' = disk_map_index + 1
    /\ UNCHANGED <<raw_disk_map, gap_j, segments_cursor, prev_result, afs_pc>>
    /\ UNCHANGED notAfs

\* Entering the arm `1 =>` on a gap.
AfsGap ==
    /\ afs_pc = "loop"
    /\ disk_map_index < Len(raw_disk_map)
    /\ disk_map_index # segments_cursor.disk_map_index
    /\ disk_map_index % 2 = 1
    /\ gap_j' = 0 /\ afs_pc' = "gap"
    /\ UNCHANGED <<raw_disk_map, checksum, checksum_index, disk_map_index,
                   segments_cursor, prev_result, counted>>
    /\ UNCHANGED notAfs

\* One block of the gap: segments_cursor.prev().expect(..) / 2
AfsPull ==
    /\ afs_pc = "gap"
    /\ gap_j < At(raw_disk_map, disk_map_index)
    /\ LET p == prev(raw_disk_map, segments_cursor)
       IN  /\ segments_cursor' = p.cursor
           /\ prev_result' = p.result
           /\ IF p.result = None
              THEN afs_pc' = "panic" /\ UNCHANGED <<checksum, gap_j, counted>>
              ELSE LET file_id == Unwrap(p.result) \div 2
                   IN  /\ checksum' = checksum + (checksum_index + gap_j) * file_id
                       /\ counted' = Append(counted, file_id)
                       /\ gap_j' = gap_j + 1
                       /\ UNCHANGED afs_pc
    /\ UNCHANGED <<raw_disk_map, checksum_index, disk_map_index>>
    /\ UNCHANGED notAfs

\* The gap is full: checksum_index += gap_length
AfsGapEnd ==
    /\ afs_pc = "gap"
    /\ gap_j >= At(raw_disk_map, disk_map_index)
    /\ checksum_index' = checksum_index + At(raw_disk_map, disk_map_index)
    /\ disk_map_index' = disk_map_index + 1
    /\ afs_pc' = "loop"
    /\ UNCHANGED <<raw_disk_map, checksum, gap_j, segments_cursor, prev_result, counted>>
    /\ UNCHANGED notAfs

NextAfs == AfsNew \/ AfsReturn \/ AfsFile \/ AfsGap \/ AfsPull \/ AfsGapEnd


(***************************************************************************)
(* Day 19 (src/aoc2024/src/day_19.rs).  A pattern and a design are byte    *)
(* sequences; the Cache is a HashMap from a tail of the design to a count, *)
(* here the set of its <<tail, count>> entries.  test_all threads the      *)
(* cache through its loop over the patterns and through its recursion.     *)
(***************************************************************************)
\* design.split_at(n)
split_at(design, n) ==
    <<SubSeq(design, 1, n), SubSeq(design, n + 1, Len(design))>>

\* cache.get(tail)
CacheGet(cache, tail) ==
    IF \E e \in cache : e[1] = tail
    THEN Some((CHOOSE e \in cache : e[1] = tail)[2])
    ELSE None

\* cache.insert(tail, x)
CacheInsert(cache, tail, x) == {e \in cache : e[1] # tail} \cup {<<tail, x>>}

RECURSIVE test_all(_, _, _)
RECURSIVE TestAllLoop(_, _, _, _, _)

\* The loop `for pattern in &self.patterns` of test_all from the i-th pattern
\* on: the total and the cache when the loop ends.
TestAllLoop(patterns, i, design, cache, total) ==
    IF i > Len(patterns) THEN [total |-> total, cache |-> cache]
    ELSE LET pattern == patterns[i]
         IN  IF Len(design) < Len(pattern)
             THEN TestAllLoop(patterns, i + 1, design, cache, total)
             ELSE LET head == split_at(design, Len(pattern))[1]
                      tail == split_at(design, Len(pattern))[2]
                  IN  IF head # pattern
                      THEN TestAllLoop(patterns, i + 1, design, cache, total)
                      ELSE IF CacheGet(cache, tail) # None
                           THEN TestAllLoop(patterns, i + 1, design, cache,
                                            total + Unwrap(CacheGet(cache, tail)))
                           ELSE LET r == test_all(patterns, tail, cache)
                                    c == IF r.total > 0
                                         THEN CacheInsert(r.cache, tail, r.total)
                                         ELSE r.cache
                                IN  TestAllLoop(patterns, i + 1, design, c,
                                                total + r.total)

\* OnsenTowels::test_all: the returned count and the cache afterwards
test_all(patterns, design, cache) ==
    IF design = <<>> THEN [total |-> 1, cache |-> cache]
    ELSE TestAllLoop(patterns, 1, design, cache, 0)

RECURSIVE VecSum(_)
VecSum(v) == IF v = <<>> THEN 0 ELSE Head(v) + VecSum(Tail(v))

\* count_feasible_designs and count_all_arrangements over match_designs()
count_feasible_designs(matched) == Cardinality({i \in 1..Len(matched) : matched[i] > 0})
count_all_arrangements(matched) == VecSum(matched)

Stripes  == {1, 2}
Patterns == UNION {[1..n -> Stripes] : n \in 1..MaxPatternLen}
Designs  == UNION {[1..n -> Stripes] : n \in 0..MaxDesignLen}

InitTowel ==
    /\ ot_patterns \in UNION {[1..n -> Patterns] : n \in 0..MaxPatterns}
    /\ ot_designs \in UNION {[1..n -> Designs] : n \in 0..MaxDesigns}
    /\ ot_part \in {1, 2}
    /\ ot_matched = <<>> /\ ot_cache = {} /\ ot_result = 0
    /\ ot_pc = "match"

\* match_designs: the closure of map on the next design, with a new Cache
TowelTestAll ==
    /\ ot_pc = "match"
    /\ Len(ot_matched) < Len(ot_designs)
    /\ LET r == test_all(ot_patterns, ot_designs[Len(ot_matched) + 1], {})
       IN  /\ ot_matched' = Append(ot_matched, r.total)
           /\ ot_cache' = r.cache
    /\ UNCHANGED <<ot_patterns, ot_designs, ot_part, ot_result, ot_pc>>
    /\ UNCHANGED notTowel

\* run: the count of the part over the collected Vec
TowelCount ==
    /\ ot_pc = "match"
    /\ Len(ot_matched) = Len(ot_designs)
    /\ ot_result' = IF ot_part = 1 THEN count_feasible_designs(ot_matched)
                                   ELSE count_all_arrangements(ot_matched)
    /\ ot_pc' = "done"
    /\ UNCHANGED <<ot_patterns, ot_designs, ot_part, ot_matched, ot_cache>>
    /\ UNCHANGED notTowel

NextTowel == TowelTestAll \/ TowelCount


(***************************************************************************)
(* SubsetGenerator (src/aoc2024/src/day_8.rs), used by day 8 and day 23.   *)
(* indices[k] of the code is sg_indices[k + 1].  sg_yielded is the history *)
(* of the lists that next() returned in Some, sg_nones the number of calls *)
(* that returned None.                                                     *)
(***************************************************************************)
\* SubsetGenerator::new: (0..m).collect() with the last index less one.  With
\* m = 1 the subtraction underflows usize: a panic in a debug build (None
\* here), while a release build wraps to usize::MAX, which the next `+ 1`
\* wraps back to 0; -1 stands for it.
SubsetGenerator_new(m) ==
    LET indices == [k \in 1..m |-> IF k = m THEN m - 2 ELSE k - 1]
    IN  IF m = 1 THEN {None, Some(indices)} ELSE {Some(indices)}

\* `max` in next: the index at k + 1, or n for the last index
MaxAt_is_n(indices, k, n) == n

MaxAt(indices, k, n) == IF k + 1 < Len(indices) THEN indices[k + 2] ELSE n

\* the bump of index k to a, with the reset of all above k
Bump(indices, k, a) ==
    [j \in 1..Len(indices) |->
        IF j - 1 < k THEN indices[j] ELSE a + (j - 1 - k)]

\* The loop `for k in (0..self.m).rev()` of next from k down: the indices
\* afterwards and `done`.
RECURSIVE NextFrom(_, _, _)
NextFrom(indices, k, n) ==
    IF k < 0 THEN [done |-> TRUE, indices |-> indices]
    ELSE LET a == indices[k + 1] + 1
         IN  IF a < MaxAt(indices, k, n)
             THEN [done |-> FALSE, indices |-> Bump(indices, k, a)]
             ELSE NextFrom(indices, k - 1, n)

InitSubset ==
    /\ sg_m \in 0..(MaxSetLen + 1)
    /\ sg_n \in 0..MaxSetLen
    /\ sg_indices = <<>> /\ sg_yielded = <<>> /\ sg_nones = 0
    /\ sg_pc = "new"

SubsetNew ==
    /\ sg_pc = "new"
    /\ \E s \in SubsetGenerator_new(sg_m) :
           IF s = None
           THEN sg_pc' = "panic" /\ UNCHANGED sg_indices
           ELSE sg_pc' = "ready" /\ sg_indices' = Unwrap(s)
    /\ UNCHANGED <<sg_m, sg_n, sg_yielded, sg_nones>>
    /\ UNCHANGED notSubset

\* SubsetGenerator::next
SubsetNext ==
    /\ sg_pc = "ready"
    /\ sg_nones < MaxNone
    /\ LET r == NextFrom(sg_indices, sg_m - 1, sg_n)
       IN  /\ sg_indices' = r.indices
           /\ IF r.done
              THEN sg_nones' = sg_nones + 1 /\ UNCHANGED sg_yielded
              ELSE sg_yielded' = Append(sg_yielded, r.indices) /\ UNCHANGED sg_nones
    /\ UNCHANGED <<sg_m, sg_n, sg_pc>>
    /\ UNCHANGED notSubset

NextSubset == SubsetNew \/ SubsetNext


(***************************************************************************)
(* SeqGenerator (src/aoc2024/src/day_7.rs).  buf[i] of the code is         *)
(* sq_buf[i + 1]; the bytes are u8.  sq_yielded is the history of the      *)
(* slices next() returned in Some, sq_nones the number of calls that       *)
(* returned None.                                                          *)
(***************************************************************************)
\* u8::wrapping_add(1)
wrapping_add_saturates(x) == IF x = U8Max THEN U8Max ELSE x + 1

wrapping_add(x) == (x + 1) % (U8Max + 1)

\* SeqGenerator::new: vec![0; n] with s[0] = u8::MAX.  With n = 0 the index
\* is out of bounds and new panics (None here).
SeqGenerator_new(n) ==
    IF n = 0 THEN None
    ELSE Some([i \in 1..n |-> IF i = 1 THEN U8Max ELSE 0])

\* The loop `for i in 0..self.n` of next from i on: the buf afterwards and
\* `done`.  buf[i + 1] + 1 is a checked addition only in a debug build, and
\* the byte it reads is never u8::MAX: the index 0 alone holds it, before
\* the first call.
RECURSIVE SeqNextFrom(_, _, _, _)
SeqNextFrom(buf, i, m, n) ==
    IF i >= n THEN [done |-> FALSE, buf |-> buf]
    ELSE LET a == wrapping_add(buf[i + 1])
         IN  IF a < m THEN [done |-> FALSE, buf |-> [buf EXCEPT ![i + 1] = a]]
             ELSE IF i = n - 1 THEN [done |-> TRUE, buf |-> buf]
             ELSE LET b == buf[i + 2] + 1
                  IN  IF b < m
                      THEN [done |-> FALSE,
                            buf |-> [j \in 1..n |-> IF j - 1 <= i THEN 0
                                                    ELSE IF j - 1 = i + 1 THEN b
                                                    ELSE buf[j]]]
                      ELSE SeqNextFrom(buf, i + 1, m, n)

InitSeq ==
    /\ sq_m \in 0..MaxOps
    /\ sq_n \in 0..MaxSeqLen
    /\ sq_buf = <<>> /\ sq_yielded = <<>> /\ sq_nones = 0
    /\ sq_pc = "new"

SeqNew ==
    /\ sq_pc = "new"
    /\ LET s == SeqGenerator_new(sq_n)
       IN  IF s = None
           THEN sq_pc' = "panic" /\ UNCHANGED sq_buf
           ELSE sq_pc' = "ready" /\ sq_buf' = Unwrap(s)
    /\ UNCHANGED <<sq_m, sq_n, sq_yielded, sq_nones>>
    /\ UNCHANGED notSeq

\* SeqGenerator::next
SeqNext ==
    /\ sq_pc = "ready"
    /\ sq_nones < MaxNone
    /\ LET r == SeqNextFrom(sq_buf, 0, sq_m, sq_n)
       IN  /\ sq_buf' = r.buf
           /\ IF r.done
              THEN sq_nones' = sq_nones + 1 /\ UNCHANGED sq_yielded
              ELSE sq_yielded' = Append(sq_yielded, r.buf) /\ UNCHANGED sq_nones
    /\ UNCHANGED <<sq_m, sq_n, sq_pc>>
    /\ UNCHANGED notSeq

NextSeq == SeqNew \/ SeqNext


(***************************************************************************)
(* Day 4, part one (src/aoc2024/src/day_4.rs).  find_xmas folds a closure  *)
(* over the bytes at the positions of the chained iterators; xw_visited is *)
(* the sequence of the bytes visited so far and xw_acc the accumulator     *)
(* (progress in XMAS, progress in SAMX, total).  "." is any byte other     *)
(* than X, M, A and S.                                                     *)
(***************************************************************************)
XmasBytes == {"X", "M", "A", "S", "."}

\* the closure of fold with an S after XMA that does not begin SAMX
fold_step_S_ends(byte, acc) ==
    LET x == acc[1]
        s == acc[2]
        t == acc[3]
    IN  CASE byte = "X" /\ s = 3          -> <<1, 0, t + 1>>
          [] byte = "X"                   -> <<1, 0, t>>
          [] byte = "M" /\ x = 1 /\ s = 2 -> <<2, 3, t>>
          [] byte = "M" /\ x = 1          -> <<2, 0, t>>
          [] byte = "M" /\ s = 2          -> <<0, 3, t>>
          [] byte = "A" /\ x = 2 /\ s = 1 -> <<3, 2, t>>
          [] byte = "A" /\ x = 2          -> <<3, 0, t>>
          [] byte = "A" /\ s = 1          -> <<0, 2, t>>
          [] byte = "S" /\ x = 3          -> <<0, 0, t + 1>>
          [] byte = "S"                   -> <<0, 1, t>>
          [] OTHER                        -> <<0, 0, t>>

\* The closure of fold: the arms of the match in their order (a CASE takes
\* any arm whose guard holds, so each guard excludes the arms before it).
fold_step(byte, acc) ==
    LET x == acc[1]
        s == acc[2]
        t == acc[3]
    IN  CASE byte = "X" /\ s = 3                       -> <<1, 0, t + 1>>
          [] byte = "X" /\ s # 3                       -> <<1, 0, t>>
          [] byte = "M" /\ x = 1 /\ s = 2              -> <<2, 3, t>>
          [] byte = "M" /\ x = 1 /\ s # 2              -> <<2, 0, t>>
          [] byte = "M" /\ x # 1 /\ s = 2              -> <<0, 3, t>>
          [] byte = "A" /\ x = 2 /\ s = 1              -> <<3, 2, t>>
          [] byte = "A" /\ x = 2 /\ s # 1              -> <<3, 0, t>>
          [] byte = "A" /\ x # 2 /\ s = 1              -> <<0, 2, t>>
          [] byte = "S" /\ x = 3                       -> <<0, 1, t + 1>>
          [] byte = "S" /\ x # 3                       -> <<0, 1, t>>
          [] OTHER                                     -> <<0, 0, t>>

InitXmas ==
    /\ xw_visited = <<>> /\ xw_acc = <<0, 0, 0>> /\ xw_total = 0 /\ xw_pc = "fold"

\* one position of the iterator: the closure on the byte at it
XmasVisit ==
    /\ xw_pc = "fold"
    /\ Len(xw_visited) < MaxBytes
    /\ \E byte \in XmasBytes :
           /\ xw_visited' = Append(xw_visited, byte)
           /\ xw_acc' = fold_step(byte, xw_acc)
    /\ UNCHANGED <<xw_total, xw_pc>>
    /\ UNCHANGED notXmas

\* the iterator is exhausted: let (_, _, total) = ..; total
XmasTotal ==
    /\ xw_pc = "fold"
    /\ xw_total' = xw_acc[3]
    /\ xw_pc' = "done"
    /\ UNCHANGED <<xw_visited, xw_acc>>
    /\ UNCHANGED notXmas

NextXmas == XmasVisit \/ XmasTotal


(***************************************************************************)
(* Day 24, part one (src/src/day_24.rs).  A WireLabel is three bytes: a    *)
(* letter and a number of two digits here, <<"z", 7>> for z07.  values is  *)
(* the HashMap of the wire values, a function on the wires that have one.  *)
(* The u64 of decode_variable is written in binary, as the set of the      *)
(* positions of its 1 bits, since 2^63 is beyond the integers of TLC.      *)
(***************************************************************************)
U64Bits      == 64
LabelNumbers == 100     \* {:02} prints three digits from 100 on

GateType == {"And", "Or", "Xor"}

\* values.get(wire)
ValueOf(vals, wire) == IF wire \in DOMAIN vals THEN Some(vals[wire]) ELSE None

\* values.insert(wire, value)
Insert(vals, wire, result) ==
    [w \in DOMAIN vals \cup {wire} |-> IF w = wire THEN result ELSE vals[w]]

\* the match on gate.op with `|` for And and Or
Apply_or_for_and(op, left, right) ==
    CASE op = "And" -> left \/ right
      [] op = "Or"  -> left \/ right
      [] op = "Xor" -> left # right

\* the match on gate.op
Apply(op, left, right) ==
    CASE op = "And" -> left /\ right
      [] op = "Or"  -> left \/ right
      [] op = "Xor" -> left # right

\* try_find_gate: the first gate with the output
try_find_gate(gs, wire) ==
    IF \E i \in 1..Len(gs) : gs[i].output = wire
    THEN Some(gs[CHOOSE i \in 1..Len(gs) :
                    /\ gs[i].output = wire
                    /\ \A j \in 1..(i - 1) : gs[j].output # wire])
    ELSE None

\* read_gates: the z outputs of the gates
OutputWires(gs) == {gs[i].output : i \in {j \in 1..Len(gs) : gs[j].output[1] = "z"}}

\* find_gates(|gate| self.output_wires.contains(&gate.output))
RECURSIVE find_gates(_, _)
find_gates(gs, outputs) ==
    IF gs = <<>> THEN <<>>
    ELSE (IF Head(gs).output \in outputs THEN <<Head(gs)>> ELSE <<>>)
             \o find_gates(Tail(gs), outputs)

\* decode_variable("z") from the wire i on.  format!("{}{:02}") makes a label
\* of four bytes from i = 100 on and parse_label panics (None here).  mask is
\* 1 << i, which is 0 from i = 64 on: `<<` by one never panics.
RECURSIVE DecodeFrom(_, _, _)
DecodeFrom(vals, i, acc) ==
    IF i >= LabelNumbers THEN None
    ELSE IF <<"z", i>> \notin DOMAIN vals THEN Some(acc)
    ELSE DecodeFrom(vals, i + 1,
                    IF vals[<<"z", i>>] /\ i < U64Bits THEN acc \cup {i} ELSE acc)

decode_variable(vals) == DecodeFrom(vals, 0, {})

x00 == <<"x", 0>>
y00 == <<"y", 0>>

FewWires  == {x00, y00, <<"a", 0>>, <<"z", 0>>, <<"z", 1>>}
FewGates  == [left : FewWires, right : FewWires,
              output : {<<"a", 0>>, <<"z", 0>>, <<"z", 1>>}, op : GateType]

\* the wires a gate of gs reads to drive w, and so on for k more gates
RECURSIVE ReadFor(_, _, _)
ReadFor(gs, ws, k) ==
    LET more == ws \cup UNION {{gs[i].left, gs[i].right} :
                                  i \in {j \in 1..Len(gs) : gs[j].output \in ws}}
    IN  IF k = 0 \/ more = ws THEN ws ELSE ReadFor(gs, more, k - 1)

\* no gate reads, through other gates, the wire it drives
Acyclic(gs) ==
    \A i \in 1..Len(gs) :
        gs[i].output \notin ReadFor(gs, {gs[i].left, gs[i].right}, Len(gs))

\* n gates x00 op y00 -> z00, z01, ..: `top` for the last, `rest` for the others
ZGates(n, top, rest) ==
    [i \in 1..n |-> [left |-> x00, right |-> y00, output |-> <<"z", i - 1>>,
                     op |-> IF i = n THEN top ELSE rest]]

\* CrossedWires::from_input: every circuit of up to MaxGates gates over the
\* few wires, and the circuits of MaxZ - 1 and of MaxZ gates that drive z00,
\* z01, .. from x00 and y00.  A circuit with a cycle makes eval push gates
\* for ever; the circuits here have none.
InitWires ==
    /\ gates \in {gs \in SeqsUpTo(FewGates, MaxGates) : Acyclic(gs)}
                    \cup {ZGates(n, top, rest) :
                              n \in (MaxZ - 1)..MaxZ, top \in GateType,
                              rest \in {"And", "Or"}}
    /\ values \in [{x00, y00} -> BOOLEAN]
    /\ original_values = values
    /\ output_wires = OutputWires(gates)
    /\ stack = <<>> /\ cw_result = None
    /\ cw_pc = "find_z_value"

\* eval up to the loop: the stack of the output gates
EvalBegin ==
    /\ cw_pc = "find_z_value"
    /\ stack' = find_gates(gates, output_wires)
    /\ cw_pc' = "eval"
    /\ UNCHANGED <<values, gates, output_wires, original_values, cw_result>>
    /\ UNCHANGED notWires

\* one iteration of `while let Some(gate) = stack.last()`
EvalStep ==
    /\ cw_pc = "eval"
    /\ stack # <<>>
    /\ LET gate      == stack[Len(stack)]
           left_val  == ValueOf(values, gate.left)
           right_val == ValueOf(values, gate.right)
           lgate     == try_find_gate(gates, gate.left)
           rgate     == try_find_gate(gates, gate.right)
       IN  CASE left_val # None /\ right_val # None ->
                   /\ values' = Insert(values, gate.output,
                                       Apply(gate.op, Unwrap(left_val), Unwrap(right_val)))
                   /\ stack' = SubSeq(stack, 1, Len(stack) - 1)
                   /\ UNCHANGED cw_pc
             [] left_val = None /\ right_val # None ->
                   /\ IF lgate = None
                      THEN cw_pc' = "panic" /\ UNCHANGED stack
                      ELSE stack' = Append(stack, Unwrap(lgate)) /\ UNCHANGED cw_pc
                   /\ UNCHANGED values
             [] left_val # None /\ right_val = None ->
                   /\ IF rgate = None
                      THEN cw_pc' = "panic" /\ UNCHANGED stack
                      ELSE stack' = Append(stack, Unwrap(rgate)) /\ UNCHANGED cw_pc
                   /\ UNCHANGED values
             [] left_val = None /\ right_val = None ->
                   /\ IF lgate = None \/ rgate = None
                      THEN cw_pc' = "panic" /\ UNCHANGED stack
                      ELSE stack' = stack \o <<Unwrap(lgate), Unwrap(rgate)>>
                           /\ UNCHANGED cw_pc
                   /\ UNCHANGED values
    /\ UNCHANGED <<gates, output_wires, original_values, cw_result>>
    /\ UNCHANGED notWires

\* the stack is empty: eval returns and find_z_value decodes "z"
DecodeZ ==
    /\ cw_pc = "eval"
    /\ stack = <<>>
    /\ LET z == decode_variable(values)
       IN  IF z = None
           THEN cw_pc' = "panic" /\ UNCHANGED cw_result
           ELSE cw_pc' = "done" /\ cw_result' = z
    /\ UNCHANGED <<values, gates, output_wires, original_values, stack>>
    /\ UNCHANGED notWires

NextWires == EvalBegin \/ EvalStep \/ DecodeZ


(***************************************************************************)
(* Day 9, part two (src/aoc2024/src/day_9.rs).  A Segment is a File with   *)
(* an id and a length or a Gap with a length (its id is 0 here);           *)
(* segments[i] of the code is segments[i + 1].  df_seg is the place of the *)
(* iterator self.segments.iter().rev(): the segments above it are done.    *)
(***************************************************************************)
File(id, length) == [kind |-> "File", id |-> id, length |-> length]
Gap(length)      == [kind |-> "Gap", id |-> 0, length |-> length]

\* AmphipodFileSystem::new: the fold of the disk map into segments
SegmentsOf(disk_map) ==
    [i \in 1..Len(disk_map) |->
        IF (i - 1) % 2 = 0 THEN File((i - 1) \div 2, disk_map[i]) ELSE Gap(disk_map[i])]

\* rellocate_segment: the arm that puts the file into the gap at i, with the
\* rest of the gap inserted after it
rellocate_into(segs, i, file_id, seg_length) ==
    LET remaining_gap == segs[i].length - seg_length
    IN  SubSeq(segs, 1, i - 1) \o <<File(file_id, seg_length)>>
            \o (IF remaining_gap > 0 THEN <<Gap(remaining_gap)>> ELSE <<>>)
            \o SubSeq(segs, i + 1, Len(segs))

\* rellocate_segment from the segment i on: the segments afterwards
RECURSIVE rellocate_segment(_, _, _, _)
rellocate_segment(segs, i, file_id, seg_length) ==
    IF i > Len(segs) THEN segs
    ELSE IF segs[i].kind = "Gap" /\ segs[i].length >= seg_length
         THEN rellocate_into(segs, i, file_id, seg_length)
    ELSE IF segs[i].kind = "File" /\ segs[i].id = file_id THEN segs
    ELSE rellocate_segment(segs, i + 1, file_id, seg_length)

\* segments_checksum from the segment i on, with the index of its first block
\* and the ids visited before it
RECURSIVE segments_checksum(_, _, _, _)
segments_checksum(segs, i, index, visited_file_ids) ==
    IF i > Len(segs) THEN 0
    ELSE LET seg == segs[i]
             new_file == seg.kind = "File" /\ seg.id \notin visited_file_ids
         IN  (IF new_file THEN BlocksChecksum(index, seg.length, seg.id) ELSE 0)
                 + segments_checksum(segs, i + 1, index + seg.length,
                                     IF seg.kind = "File"
                                     THEN visited_file_ids \cup {seg.id}
                                     ELSE visited_file_ids)

InitDefrag ==
    /\ segments \in {SegmentsOf(disk_map) : disk_map \in DiskMaps}
    /\ new_segments = segments
    /\ df_seg = Len(segments)
    /\ df_checksum = 0
    /\ df_pc = "loop"

\* one segment of `for seg in self.segments.iter().rev()`
DefragSegment ==
    /\ df_pc = "loop"
    /\ df_seg >= 1
    /\ new_segments' =
           IF segments[df_seg].kind = "File"
           THEN rellocate_segment(new_segments, 1, segments[df_seg].id,
                                  segments[df_seg].length)
           ELSE new_segments
    /\ df_seg' = df_seg - 1
    /\ UNCHANGED <<segments, df_checksum, df_pc>>
    /\ UNCHANGED notDefrag

\* Self::segments_checksum(&new_segments)
DefragChecksum ==
    /\ df_pc = "loop"
    /\ df_seg = 0
    /\ df_checksum' = segments_checksum(new_segments, 1, 0, {})
    /\ df_pc' = "done"
    /\ UNCHANGED <<segments, new_segments, df_seg>>
    /\ UNCHANGED notDefrag

NextDefrag == DefragSegment \/ DefragChecksum


(***************************************************************************)
(* Day 5 (src/src/day_5.rs).  rules[left] of the code is the Vec of the    *)
(* pages `right` of the lines left|right; po_rules is the set of the pairs *)
(* <<left, right>>, and rules[page].contains(p) is <<page, p>> \in it.     *)
(* The pages here are below 100, the length of the rules table.  pages[i]  *)
(* of the code is po_pages[i + 1].                                         *)
(***************************************************************************)
\* pages.to_mut().swap(i, j)
swap(pages, i, j) ==
    [pages EXCEPT ![i + 1] = pages[j + 1], ![j + 1] = pages[i + 1]]

\* The loop `for j in 0..i` of validate_page_order from j on, for the page
\* that was at i when the iteration began: the pages afterwards, whether a
\* rule was found broken, and whether the function returned from the loop.
RECURSIVE InnerLoop(_, _, _, _, _, _, _)
InnerLoop(rules, page, pages, i, j, do_fix, found) ==
    IF j >= i THEN [pages |-> pages, found |-> found, returned |-> FALSE]
    ELSE IF <<page, pages[j + 1]>> \in rules
         THEN IF do_fix
              THEN InnerLoop(rules, page, swap(pages, i, j), i, j + 1, do_fix, TRUE)
              ELSE [pages |-> pages, found |-> TRUE, returned |-> TRUE]
         ELSE InnerLoop(rules, page, pages, i, j + 1, do_fix, found)

PageNumbers == 0..MaxPage

InitPages ==
    /\ po_rules \in SUBSET (PageNumbers \X PageNumbers)
    /\ po_update \in UNION {[1..n -> PageNumbers] : n \in 0..MaxUpdate}
    /\ po_do_fix \in BOOLEAN
    /\ po_pages = po_update
    /\ po_i = 0
    /\ po_valid = TRUE
    /\ po_pc = "loop"

\* one iteration of `for i in 0..pages.len()`
PageStep ==
    /\ po_pc = "loop"
    /\ po_i < Len(po_pages)
    /\ LET r == InnerLoop(po_rules, po_pages[po_i + 1], po_pages, po_i, 0,
                          po_do_fix, FALSE)
       IN  /\ po_pages' = r.pages
           /\ po_valid' = (po_valid /\ ~r.found)
           /\ po_pc' = IF r.returned THEN "done" ELSE "loop"
    /\ po_i' = po_i + 1
    /\ UNCHANGED <<po_rules, po_update, po_do_fix>>
    /\ UNCHANGED notPages

\* the loop is over: (valid, pages)
PageReturn ==
    /\ po_pc = "loop"
    /\ po_i >= Len(po_pages)
    /\ po_pc' = "done"
    /\ UNCHANGED <<po_rules, po_update, po_do_fix, po_pages, po_i, po_valid>>
    /\ UNCHANGED notPages

NextPages == PageStep \/ PageReturn

(***************************************************************************)
(* Day 15: Warehouse.  A map is a function from the positions <<x, y>> of  *)
(* its rows and columns to tiles; the robot is not a tile ('@' reads as    *)
(* Empty) but the position replay_moves carries from step to step.         *)
(***************************************************************************)
Empty        == [kind |-> "Empty",     id |-> 0]
Wall         == [kind |-> "Wall",      id |-> 0]
Box(id)      == [kind |-> "Box",       id |-> id]
LargeBoxL(id) == [kind |-> "LargeBoxL", id |-> id]
LargeBoxR(id) == [kind |-> "LargeBoxR", id |-> id]

WarehouseMoves == {"Left", "Right", "Up", "Down"}

\* Dir::as_vec
dir_as_vec(d) ==
    CASE d = "Left"  -> <<-1, 0>>
      [] d = "Right" -> <<1, 0>>
      [] d = "Up"    -> <<0, -1>>
      [] d = "Down"  -> <<0, 1>>

Vec2Mul(a, i) == <<a[1] * i, a[2] * i>>

\* self.map[0].len()
MapWidth(m)  == 1 + (CHOOSE x \in {p[1] : p \in DOMAIN m} : \A p \in DOMAIN m : p[1] <= x)
MapHeight(m) == 1 + (CHOOSE y \in {p[2] : p \in DOMAIN m} : \A p \in DOMAIN m : p[2] <= y)

\* Warehouse::inflate: every tile becomes two, the start doubles its x.
inflate(m) ==
    [p \in (0 .. 2 * MapWidth(m) - 1) \X (0 .. MapHeight(m) - 1) |->
        LET tile == m[<<p[1] \div 2, p[2]>>]
        IN  CASE tile.kind = "Empty" -> Empty
              [] tile.kind = "Wall"  -> Wall
              [] tile.kind = "Box"   ->
                    IF p[1] % 2 = 0 THEN LargeBoxL(tile.id) ELSE LargeBoxR(tile.id)]

\* Warehouse::swap_tiles
swap_tiles(m, a, b) == [m EXCEPT ![a] = m[b], ![b] = m[a]]

\* Warehouse::find_empty_in_dir: for i in 1..width.  A large box makes the
\* code panic: the CASE has no arm for it (part one's maps hold none).
RECURSIVE FindEmptyLoop(_, _, _, _, _)
FindEmptyLoop(m, from, dir, i, width) ==
    IF i >= width THEN None
    ELSE LET at == Vec2Add(from, Vec2Mul(dir_as_vec(dir), i))
         IN  CASE m[at].kind = "Empty" -> Some(at)
               [] m[at].kind = "Wall"  -> None
               [] m[at].kind = "Box"   -> FindEmptyLoop(m, from, dir, i + 1, width)

find_empty_in_dir(m, from, dir) == FindEmptyLoop(m, from, dir, 1, MapWidth(m))

\* A MoveSet (HashMap<Vec2, Tile>) is a set of <<position, tile>> pairs.
contains_key(move_set, at) == \E e \in move_set : e[1] = at
insert(move_set, at, tile) == {e \in move_set : e[1] # at} \cup {<<at, tile>>}

\* Warehouse::add_box_to_move_set: the updated move set and Some(<<p0, p1>>).
add_box_one_half(m, p0, move_set) ==
    IF m[p0].kind \in {"LargeBoxL", "LargeBoxR"}
    THEN [move_set |-> insert(move_set, p0, m[p0]), halves |-> Some(<<p0, p0>>)]
    ELSE [move_set |-> move_set, halves |-> None]

add_box_to_move_set(m, p0, move_set) ==
    CASE m[p0].kind = "LargeBoxL" ->
            LET p1 == Vec2Add(p0, <<1, 0>>)
            IN  [move_set |-> insert(insert(move_set, p0, LargeBoxL(m[p0].id)),
                                     p1, LargeBoxR(m[p0].id)),
                 halves   |-> Some(<<p0, p1>>)]
      [] m[p0].kind = "LargeBoxR" ->
            LET p1 == Vec2Add(p0, <<-1, 0>>)
            IN  [move_set |-> insert(insert(move_set, p0, LargeBoxR(m[p0].id)),
                                     p1, LargeBoxL(m[p0].id)),
                 halves   |-> Some(<<p0, p1>>)]
      [] OTHER -> [move_set |-> move_set, halves |-> None]

\* Warehouse::find_move_set: visiting is the stack, popped from its end.
RECURSIVE FindMoveSetLoop(_, _, _, _)
FindMoveSetLoop(m, visiting, move_set, dir) ==
    IF visiting = <<>> THEN move_set
    ELSE LET at   == visiting[Len(visiting)]
             rest == SubSeq(visiting, 1, Len(visiting) - 1)
             next == Vec2Add(at, dir_as_vec(dir))
         IN  IF contains_key(move_set, next)
             THEN FindMoveSetLoop(m, rest, move_set, dir)
             ELSE LET added == add_box_to_move_set(m, next, move_set)
                  IN  IF added.halves # None
                      THEN FindMoveSetLoop(m, rest \o Unwrap(added.halves),
                                           added.move_set, dir)
                      ELSE FindMoveSetLoop(m, rest, move_set, dir)

find_move_set(m, at, dir) == FindMoveSetLoop(m, <<at>>, {}, dir)

\* Warehouse::can_move_selected
can_move_selected(m, move_set, dir) ==
    \A e \in move_set :
        LET dest == Vec2Add(e[1], dir_as_vec(dir))
        IN  CASE m[dest].kind = "Empty" -> TRUE
              [] m[dest].kind = "Wall"  -> FALSE
              [] m[dest].kind \in {"LargeBoxL", "LargeBoxR"} ->
                    contains_key(move_set, dest)
              [] OTHER -> FALSE

\* Warehouse::move_selected: the new map and the new current_move_set.
move_selected(m, move_set, dir) ==
    LET new_move_set == {<<Vec2Add(e[1], dir_as_vec(dir)), e[2]>> : e \in move_set}
    IN  [map |-> [p \in DOMAIN m |->
                    IF contains_key(new_move_set, p)
                    THEN (CHOOSE e \in new_move_set : e[1] = p)[2]
                    ELSE IF contains_key(move_set, p) THEN Empty ELSE m[p]],
         current_move_set |-> new_move_set]

\* Warehouse::step: the map, the move set, can_move and the returned position.
step(m, move_set, can, from, dir) ==
    LET to   == Vec2Add(from, dir_as_vec(dir))
        tile == m[to]
    IN  CASE tile.kind = "Empty" ->
                [map |-> m, current_move_set |-> move_set, can_move |-> can, pos |-> to]
          [] tile.kind = "Box" ->
                LET dest == find_empty_in_dir(m, to, dir)
                IN  IF dest # None
                    THEN [map |-> swap_tiles(m, to, Unwrap(dest)),
                          current_move_set |-> move_set, can_move |-> can, pos |-> to]
                    ELSE [map |-> m, current_move_set |-> move_set,
                          can_move |-> can, pos |-> from]
          [] tile.kind \in {"LargeBoxL", "LargeBoxR"} ->
                LET found == find_move_set(m, from, dir)
                    ok    == can_move_selected(m, found, dir)
                    moved == move_selected(m, found, dir)
                IN  IF ok
                    THEN [map |-> moved.map, current_move_set |-> moved.current_move_set,
                          can_move |-> TRUE, pos |-> to]
                    ELSE [map |-> m, current_move_set |-> found,
                          can_move |-> FALSE, pos |-> from]
          [] OTHER ->
                [map |-> m, current_move_set |-> move_set, can_move |-> can, pos |-> from]

\* The maps read: a rectangle of tiles inside a border of walls, one '@',
\* and some 'O', numbered from 1 as read_map meets them, row by row.  Two
\* shapes: a room, and one column of tiles.
RoomShape == <<3, 4>>
ColumnShape == <<1, TallH>>
Inside(shape) == (1 .. shape[1]) \X (1 .. shape[2])
ReadBefore(q, p) == q[2] < p[2] \/ (q[2] = p[2] /\ q[1] < p[1])

read_map(shape, boxes) ==
    [p \in (0 .. shape[1] + 1) \X (0 .. shape[2] + 1) |->
        IF p \notin Inside(shape) THEN Wall
        ELSE IF p \in boxes
             THEN Box(1 + Cardinality({q \in boxes : ReadBefore(q, p)}))
             ELSE Empty]

BoxesOn(shape, robot) ==
    IF shape = ColumnShape THEN SUBSET (Inside(shape) \ {robot})
    ELSE {b \in SUBSET (Inside(shape) \ {robot}) : Cardinality(b) <= MaxBoxes}

InitWarehouse ==
    \E shape \in {RoomShape, ColumnShape} : \E robot \in Inside(shape) :
    \E boxes \in BoxesOn(shape, robot) :
        /\ wh_map = read_map(shape, boxes)
        /\ wh_pos = robot
        /\ current_move_set = {}
        /\ can_move = TRUE
        /\ wh_inflated = FALSE
        /\ wh_walls = {}
        /\ wh_ids = {}
        /\ wh_before = <<>>
        /\ wh_from = <<0, 0>>
        /\ wh_dir = "none"
        /\ wh_pc = "new"

\* What the run starts from: where the walls are, which boxes there are.
WallsOf(m) == {p \in DOMAIN m : m[p].kind = "Wall"}
BoxIds(m)  == {m[p].id : p \in {q \in DOMAIN m : m[q].kind \notin {"Empty", "Wall"}}}

\* Day::run, part one: replay the moves on the map as read, from start.
WhPartOne ==
    /\ wh_pc = "new"
    /\ wh_pc' = "replay"
    /\ wh_walls' = WallsOf(wh_map)
    /\ wh_ids' = BoxIds(wh_map)
    /\ UNCHANGED <<wh_map, wh_pos, current_move_set, can_move, wh_inflated,
                   wh_before, wh_from, wh_dir>>
    /\ UNCHANGED notWarehouse

\* Day::run, part two: inflate, then replay from the doubled start.
WhInflate ==
    /\ wh_pc = "new"
    /\ wh_pc' = "replay"
    /\ wh_map' = inflate(wh_map)
    /\ wh_pos' = <<wh_pos[1] * 2, wh_pos[2]>>
    /\ current_move_set' = {}
    /\ can_move' = TRUE
    /\ wh_inflated' = TRUE
    /\ wh_walls' = WallsOf(inflate(wh_map))
    /\ wh_ids' = BoxIds(inflate(wh_map))
    /\ UNCHANGED <<wh_before, wh_from, wh_dir>>
    /\ UNCHANGED notWarehouse

\* replay_moves: one move of the list, pos = self.step(pos, m).
WhStep ==
    /\ wh_pc = "replay"
    /\ \E m \in WarehouseMoves :
          LET after == step(wh_map, current_move_set, can_move, wh_pos, m)
          IN  /\ wh_map' = after.map
              /\ current_move_set' = after.current_move_set
              /\ can_move' = after.can_move
              /\ wh_pos' = after.pos
              /\ wh_before' = wh_map
              /\ wh_from' = wh_pos
              /\ wh_dir' = m
    /\ UNCHANGED <<wh_inflated, wh_walls, wh_ids, wh_pc>>
    /\ UNCHANGED notWarehouse

NextWarehouse == WhPartOne \/ WhInflate \/ WhStep

IdleCli ==
    /\ pc = "idle"
    /\ dayArg = None /\ partArg = None /\ fileArg = None
    /\ day = None /\ part = None
    /\ fs = None
    /\ opens = <<>> /\ input = None /\ stdout = <<>>
    /\ exit_code = None /\ error = None /\ ran = None

IdleVm ==
    /\ asm = <<>>
    /\ registers = [r \in Register |-> 0]
    /\ ip = 0 /\ output = <<>> /\ jmp_flag = FALSE
    /\ vm_pc = "idle"

IdleMaze ==
    /\ maze = <<>> /\ grid = <<>> /\ ms_pc = "idle" /\ ms_result = None
    /\ ms_nodes = {}

IdleKeypad ==
    /\ kp_code = <<>> /\ kp_depth = 0 /\ kp_cost = None /\ kp_pc = "idle"

IdleClaw ==
    /\ claw_machine = <<>> /\ claw_offset = <<0, 0>> /\ claw_solution = None
    /\ claw_tokens = 0 /\ claw_pc = "idle"

IdleAfs ==
    /\ raw_disk_map = <<>> /\ checksum = 0 /\ checksum_index = 0 /\ disk_map_index = 0
    /\ gap_j = 0 /\ segments_cursor = NoCursor /\ prev_result = None /\ counted = <<>>
    /\ afs_pc = "idle"

IdleTowel ==
    /\ ot_patterns = <<>> /\ ot_designs = <<>> /\ ot_part = 1 /\ ot_matched = <<>>
    /\ ot_cache = {} /\ ot_result = 0 /\ ot_pc = "idle"

IdleSubset ==
    /\ sg_m = 0 /\ sg_n = 0 /\ sg_indices = <<>> /\ sg_yielded = <<>> /\ sg_nones = 0
    /\ sg_pc = "idle"

IdleSeq ==
    /\ sq_m = 0 /\ sq_n = 0 /\ sq_buf = <<>> /\ sq_yielded = <<>> /\ sq_nones = 0
    /\ sq_pc = "idle"

IdleXmas ==
    /\ xw_visited = <<>> /\ xw_acc = <<0, 0, 0>> /\ xw_total = 0 /\ xw_pc = "idle"

IdleWires ==
    /\ values = <<>> /\ gates = <<>> /\ output_wires = {} /\ original_values = <<>>
    /\ stack = <<>> /\ cw_result = None /\ cw_pc = "idle"

IdleDefrag ==
    /\ segments = <<>> /\ new_segments = <<>> /\ df_seg = 0 /\ df_checksum = 0
    /\ df_pc = "idle"

IdlePages ==
    /\ po_rules = {} /\ po_update = <<>> /\ po_do_fix = FALSE /\ po_pages = <<>>
    /\ po_i = 0 /\ po_valid = TRUE /\ po_pc = "idle"

IdleWarehouse ==
    /\ wh_map = <<>> /\ current_move_set = {} /\ can_move = TRUE /\ wh_pos = <<0, 0>>
    /\ wh_inflated = FALSE /\ wh_walls = {} /\ wh_ids = {} /\ wh_before = <<>>
    /\ wh_from = <<0, 0>> /\ wh_dir = "none" /\ wh_pc = "idle"

\* The command line: main and run.
Init ==
    /\ InitCli
    /\ IdleVm
    /\ IdleMaze
    /\ IdleKeypad
    /\ IdleClaw
    /\ IdleAfs
    /\ IdleTowel
    /\ IdleSubset
    /\ IdleSeq
    /\ IdleXmas
    /\ IdleWires
    /\ IdleDefrag
    /\ IdlePages
    /\ IdleWarehouse
Spec == Init /\ [][NextCli]_vars

\* Day 17: Computer::exec.
VmInit ==
    /\ InitVm
    /\ IdleCli
    /\ IdleMaze
    /\ IdleKeypad
    /\ IdleClaw
    /\ IdleAfs
    /\ IdleTowel
    /\ IdleSubset
    /\ IdleSeq
    /\ IdleXmas
    /\ IdleWires
    /\ IdleDefrag
    /\ IdlePages
    /\ IdleWarehouse
SpecVm == VmInit /\ [][NextVm]_vars

\* Day 16: MazeSolver::shortest_path and all_shortest_paths_nodes.
MazeInit ==
    /\ InitMaze
    /\ IdleCli
    /\ IdleVm
    /\ IdleKeypad
    /\ IdleClaw
    /\ IdleAfs
    /\ IdleTowel
    /\ IdleSubset
    /\ IdleSeq
    /\ IdleXmas
    /\ IdleWires
    /\ IdleDefrag
    /\ IdlePages
    /\ IdleWarehouse
SpecMaze == MazeInit /\ [][NextMaze]_vars

\* Day 21: KeypadTable::keypad_path.
KeypadInit ==
    /\ InitKeypad
    /\ IdleCli
    /\ IdleVm
    /\ IdleMaze
    /\ IdleClaw
    /\ IdleAfs
    /\ IdleTowel
    /\ IdleSubset
    /\ IdleSeq
    /\ IdleXmas
    /\ IdleWires
    /\ IdleDefrag
    /\ IdlePages
    /\ IdleWarehouse
SpecKeypad == KeypadInit /\ [][NextKeypad]_vars

\* Day 13: ClawMachine::solve_with_offset.
ClawInit ==
    /\ InitClaw
    /\ IdleCli
    /\ IdleVm
    /\ IdleMaze
    /\ IdleKeypad
    /\ IdleAfs
    /\ IdleTowel
    /\ IdleSubset
    /\ IdleSeq
    /\ IdleXmas
    /\ IdleWires
    /\ IdleDefrag
    /\ IdlePages
    /\ IdleWarehouse
SpecClaw == ClawInit /\ [][NextClaw]_vars

\* Day 9: AmphipodFileSystem::fragmented_checksum.
AfsInit ==
    /\ InitAfs
    /\ IdleCli
    /\ IdleVm
    /\ IdleMaze
    /\ IdleKeypad
    /\ IdleClaw
    /\ IdleTowel
    /\ IdleSubset
    /\ IdleSeq
    /\ IdleXmas
    /\ IdleWires
    /\ IdleDefrag
    /\ IdlePages
    /\ IdleWarehouse
SpecAfs == AfsInit /\ [][NextAfs]_vars

\* Day 19: OnsenTowels::match_designs.
TowelInit ==
    /\ InitTowel
    /\ IdleCli
    /\ IdleVm
    /\ IdleMaze
    /\ IdleKeypad
    /\ IdleClaw
    /\ IdleAfs
    /\ IdleSubset
    /\ IdleSeq
    /\ IdleXmas
    /\ IdleWires
    /\ IdleDefrag
    /\ IdlePages
    /\ IdleWarehouse
SpecTowel == TowelInit /\ [][NextTowel]_vars

\* Day 8: SubsetGenerator.
SubsetInit ==
    /\ InitSubset
    /\ IdleCli
    /\ IdleVm
    /\ IdleMaze
    /\ IdleKeypad
    /\ IdleClaw
    /\ IdleAfs
    /\ IdleTowel
    /\ IdleSeq
    /\ IdleXmas
    /\ IdleWires
    /\ IdleDefrag
    /\ IdlePages
    /\ IdleWarehouse
SpecSubset == SubsetInit /\ [][NextSubset]_vars

\* Day 7: SeqGenerator.
SeqInit ==
    /\ InitSeq
    /\ IdleCli
    /\ IdleVm
    /\ IdleMaze
    /\ IdleKeypad
    /\ IdleClaw
    /\ IdleAfs
    /\ IdleTowel
    /\ IdleSubset
    /\ IdleXmas
    /\ IdleWires
    /\ IdleDefrag
    /\ IdlePages
    /\ IdleWarehouse
SpecSeq == SeqInit /\ [][NextSeq]_vars

\* Day 4: XmasWords::find_xmas.
XmasInit ==
    /\ InitXmas
    /\ IdleCli
    /\ IdleVm
    /\ IdleMaze
    /\ IdleKeypad
    /\ IdleClaw
    /\ IdleAfs
    /\ IdleTowel
    /\ IdleSubset
    /\ IdleSeq
    /\ IdleWires
    /\ IdleDefrag
    /\ IdlePages
    /\ IdleWarehouse
SpecXmas == XmasInit /\ [][NextXmas]_vars

\* Day 24: CrossedWires::find_z_value.
WiresInit ==
    /\ InitWires
    /\ IdleCli
    /\ IdleVm
    /\ IdleMaze
    /\ IdleKeypad
    /\ IdleClaw
    /\ IdleAfs
    /\ IdleTowel
    /\ IdleSubset
    /\ IdleSeq
    /\ IdleXmas
    /\ IdleDefrag
    /\ IdlePages
    /\ IdleWarehouse
SpecWires == WiresInit /\ [][NextWires]_vars

\* Day 9: AmphipodFileSystem::defragmented_checksum.
DefragInit ==
    /\ InitDefrag
    /\ IdleCli
    /\ IdleVm
    /\ IdleMaze
    /\ IdleKeypad
    /\ IdleClaw
    /\ IdleAfs
    /\ IdleTowel
    /\ IdleSubset
    /\ IdleSeq
    /\ IdleXmas
    /\ IdleWires
    /\ IdlePages
    /\ IdleWarehouse
SpecDefrag == DefragInit /\ [][NextDefrag]_vars

\* Day 5: PrintIntstructions::validate_page_order.
PagesInit ==
    /\ InitPages
    /\ IdleCli
    /\ IdleVm
    /\ IdleMaze
    /\ IdleKeypad
    /\ IdleClaw
    /\ IdleAfs
    /\ IdleTowel
    /\ IdleSubset
    /\ IdleSeq
    /\ IdleXmas
    /\ IdleWires
    /\ IdleDefrag
    /\ IdleWarehouse
SpecPages == PagesInit /\ [][NextPages]_vars

\* Day 15: Warehouse::step over the maps read, as they are and inflated.
WarehouseInit ==
    /\ InitWarehouse
    /\ IdleCli
    /\ IdleVm
    /\ IdleMaze
    /\ IdleKeypad
    /\ IdleClaw
    /\ IdleAfs
    /\ IdleTowel
    /\ IdleSubset
    /\ IdleSeq
    /\ IdleXmas
    /\ IdleWires
    /\ IdleDefrag
    /\ IdlePages
SpecWarehouse == WarehouseInit /\ [][NextWarehouse]_vars

(***************************************************************************)
(* The command line's properties.                                          *)
(***************************************************************************)
ResultLines == {i \in 1..Len(stdout) : stdout[i][1] = "result"}

\* The first path of `order` that can be opened, if any.
RECURSIVE FirstOpenable(_)
FirstOpenable(order) ==
    IF order = <<>> THEN None
    ELSE IF Unwrap(fs)[Head(order)] THEN Some(Head(order))
    ELSE FirstOpenable(Tail(order))

Opened == pc \in {"run_day", "run_print"} \/ (pc = "exit" /\ input # None)
OpenFailed == pc = "exit" /\ error # None /\ Unwrap(error)[1] = "InputFileNotFound"

ClaimedOrder ==
    (IF fileArg # None THEN <<"given">> ELSE <<>>) \o <<"default", "stdin">>

CodeOrder ==
    <<IF fileArg # None THEN "given" ELSE "default", "stdin">>

\* C1 (as claimed): the input is the first that can be opened of the given
\* file (when given), the default file and /dev/stdin, in this order; so a
\* given file that cannot be opened falls back to the default file first.
C1_DefaultBeforeStdin ==
    /\ Opened => Some(PathKind(Unwrap(input))) = FirstOpenable(ClaimedOrder)
    /\ OpenFailed => FirstOpenable(ClaimedOrder) = None

\* C1 (amended): the input is the first that can be opened of two paths: the
\* given file when one is given and the default file otherwise, then
\* /dev/stdin.  The paths are tried in this order, each at most once, and the
\* default file is never tried when a file is given.
C1_ArgumentOrDefaultThenStdin ==
    /\ Opened => Some(PathKind(Unwrap(input))) = FirstOpenable(CodeOrder)
    /\ OpenFailed => FirstOpenable(CodeOrder) = None /\ Len(opens) = 2
    /\ Len(opens) <= 2
    /\ \A i \in 1..Len(opens) : PathKind(opens[i]) = CodeOrder[i]
    /\ Opened => PathKind(opens[Len(opens)]) = PathKind(Unwrap(input))

\* C1 witness: a file is given and cannot be opened, the default file could
\* be, and the run reads /dev/stdin.
C1_Witness ==
    /\ Opened
    /\ fileArg # None
    /\ ~Unwrap(fs)["given"] /\ Unwrap(fs)["default"]
    /\ PathKind(Unwrap(input)) = "stdin"

\* C2: every error is terminal.  Once main has an error the process has
\* exited with a status other than 0 and standard output holds no result
\* line; nothing is tried twice (at most two opens, of different paths, and
\* one run of one solver); and a result line is written only after the
\* day's run returned Ok.
C2_ErrorsAreTerminal ==
    /\ error # None =>
          /\ pc = "exit"
          /\ exit_code # None /\ Unwrap(exit_code) # 0
          /\ ResultLines = {}
    /\ ResultLines # {} =>
          /\ ran # None /\ Unwrap(ran).outcome.kind = "ok"
          /\ error = None
          /\ Cardinality(ResultLines) = 1
    /\ Len(opens) <= 2
    /\ Len(opens) = 2 => opens[1] # opens[2]
    /\ pc = "exit" => exit_code # None

\* C2 witness: the day's run returned an error, and the process has exited
\* with status 1 without a result line.
C2_Witness ==
    /\ ran # None /\ Unwrap(ran).outcome.kind = "err"
    /\ pc = "exit" /\ exit_code = Some(1)
    /\ ResultLines = {}

\* C3: on a successful run standard output holds the result line and
\* nothing else.
C3_OnlyTheResult ==
    exit_code = Some(0) => Len(stdout) = 1 /\ ResultLines = {1}

\* A decimal numeral: digits, after an optional "+".
Numeral(s) ==
    LET body == IF s # <<>> /\ Head(s) = "+" THEN Tail(s) ELSE s
    IN  /\ body # <<>>
        /\ \A i \in 1..Len(body) : body[i] \in DOMAIN DigitOf

RECURSIVE Pow10(_)
Pow10(n) == IF n = 0 THEN 1 ELSE 10 * Pow10(n - 1)

RECURSIVE SumTo(_, _)
SumTo(f, n) == IF n = 0 THEN 0 ELSE f[n] + SumTo(f, n - 1)

\* The number a numeral denotes: the sum of its digits times their powers of ten.
Denoted(s) ==
    LET body == IF Head(s) = "+" THEN Tail(s) ELSE s
        n == Len(body)
    IN  SumTo([i \in 1..n |-> DigitOf[body[i]] * Pow10(n - i)], n)

NothingOpened == opens = <<>> /\ input = None /\ ran = None /\ stdout = <<>>

ErrorIs(kinds) ==
    /\ error # None
    /\ Unwrap(error)[1] = "Argument"
    /\ Unwrap(error)[2] \in kinds

\* C4: the day argument is accepted exactly when it is a numeral for a
\* number in 0..24, and then day is that number; any other day argument
\* fails with InvalidDayInput or InvalidDay before the part argument is
\* read and before anything is opened or run.  The part argument is accepted
\* exactly when it is a numeral for 1 or 2; any other fails with
\* InvalidPartArgument or PartOutOfRange before anything is opened.
C4_ArgumentsValidated ==
    /\ dayArg # None =>
          LET a == Unwrap(dayArg)
              good == Numeral(a) /\ Denoted(a) \in 0..24
          IN  /\ day # None <=> good
              /\ good => day = Some(Denoted(a))
              /\ ~good => /\ ErrorIs({"InvalidDayInput", "InvalidDay"})
                          /\ partArg = None /\ part = None
                          /\ NothingOpened
    /\ partArg # None =>
          LET a == Unwrap(partArg)
              good == Numeral(a) /\ Denoted(a) \in {1, 2}
          IN  /\ part # None <=> good
              /\ good => part = Some(Denoted(a))
              /\ ~good => /\ ErrorIs({"InvalidPartArgument", "PartOutOfRange"})
                          /\ NothingOpened

\* C4 witness: the day argument 25 was rejected with InvalidDay(25).
C4_Witness ==
    /\ dayArg = Some(<<"2", "5">>)
    /\ error = Some(<<"Argument", "InvalidDay", 25>>)
    /\ pc = "exit"

\* C5: an absent day or part argument fails with MissingArgument naming it,
\* and no solver runs.
C5_MissingArgument ==
    /\ pc # "main_day" /\ dayArg = None =>
          error = Some(<<"Argument", "MissingArgument", "day">>) /\ ran = None
    /\ pc \notin {"main_day", "main_part"} /\ day # None /\ partArg = None =>
          error = Some(<<"Argument", "MissingArgument", "part">>) /\ ran = None

\* C6: with a day that has a solver module, a part in 1..2 and an input that
\* was opened, that module's run is executed; DayNotImplemented is returned
\* only for days without a solver module.
C6_EverySolverDispatched ==
    pc = "exit" /\ day # None /\ part # None /\ input # None
                /\ Unwrap(day) \in SolverModules =>
        /\ ran # None /\ Unwrap(ran).day = Unwrap(day)
        /\ ~(error # None /\ Unwrap(error)[1] = "DayNotImplemented")

\* The first line of the input that the day reads has a token that is not
\* an integer, where the day's grammar wants one.
ReadsBadInt(r) ==
    /\ OnBadInt(r.day) # "accept"
    /\ r.content.lines # <<>>
    /\ r.content.lines[1] = "badint"

\* C7: a token that is not an integer where the grammar wants one makes run
\* return Error::ParseInt, which main reports with status 1; no solver panics.
C7_ParseIntIsAnError ==
    ran # None /\ ReadsBadInt(Unwrap(ran)) =>
        /\ Unwrap(ran).outcome.kind = "err"
        /\ pc = "exit" => error = Some(<<"ParseInt">>) /\ exit_code = Some(1)

\* C8: a failing read ends the run with an I/O error; it is never taken as
\* the end of the input, so no result of a truncated input is printed.
C8_ReadFailureIsAnError ==
    ran # None /\ Unwrap(ran).content.fails
               /\ Unwrap(ran).content.lines = <<>> =>
        /\ Unwrap(ran).outcome.kind = "err"
        /\ ~Unwrap(ran).outcome.truncated
        /\ ResultLines = {}
        /\ pc = "exit" => Unwrap(error)[1] = "StdIo" /\ exit_code = Some(1)

(***************************************************************************)
(* Day 17: the instructions' properties.                                   *)
(***************************************************************************)
\* The machine code (opcode, operand) that disassembles to an instruction.
MachineCodeOf(instr) ==
    {c \in (0..7) \X (0..7) :
        /\ c[1] \in ComboOpcodes => c[2] <= 6
        /\ InstrNew(c[1], c[2]) = instr}

\* What a combo operand denotes.
ComboDenotes(n, regs) ==
    CASE n \in 0..3 -> n
      [] n = 4 -> regs["A"]
      [] n = 5 -> regs["B"]
      [] n = 6 -> regs["C"]

\* floor(a / 2^v), for the values of the model.
FloorDivPow2(a, v) ==
    IF v < 0 THEN a * 2 ^ (-v)
    ELSE IF v >= 31 THEN (IF a >= 0 THEN 0 ELSE -1)
    ELSE a \div 2 ^ v

\* The registers after an instruction other than jnz, as the tests state them.
StatedRegisters(opcode, n, regs) ==
    CASE opcode = 0 ->
            [regs EXCEPT !["A"] = FloorDivPow2(regs["A"], ComboDenotes(n, regs))]
      [] opcode = 6 ->
            [regs EXCEPT !["B"] = FloorDivPow2(regs["A"], ComboDenotes(n, regs))]
      [] opcode = 7 ->
            [regs EXCEPT !["C"] = FloorDivPow2(regs["A"], ComboDenotes(n, regs))]
      [] opcode = 1 -> [regs EXCEPT !["B"] = Xor(regs["B"], n)]
      [] opcode = 2 -> [regs EXCEPT !["B"] = ComboDenotes(n, regs) % 8]
      [] opcode = 4 -> [regs EXCEPT !["B"] = Xor(regs["B"], regs["C"])]
      [] opcode = 5 -> regs

StatedOutput(opcode, n, regs, out) ==
    IF opcode = 5 THEN Append(out, ComboDenotes(n, regs) % 8) ELSE out

AtInstruction == vm_pc = "exec" /\ ip < Len(asm) /\ Len(output) < MaxOut

\* C9: executing an instruction other than jnz advances ip by one, gives the
\* registers and the output the values stated for it (floor(A / 2^operand)
\* for adv, bdv and cdv, B xor literal for bxl, combo operand mod 8 for bst
\* and out, B xor C for bxc) and changes nothing else.
C9_InstructionEffects ==
    [][AtInstruction /\ asm[ip + 1].op # "Jnz" =>
          \A c \in MachineCodeOf(asm[ip + 1]) :
              /\ vm_pc' = "exec"
              /\ ip' = ip + 1
              /\ registers' = StatedRegisters(c[1], c[2], registers)
              /\ output' = StatedOutput(c[1], c[2], registers, output)
              /\ asm' = asm]_vars

\* C21: jnz with A non-zero sets ip to the instruction at the machine-code
\* address of its operand (index operand / 2) and ip is not incremented after
\* it; with A zero ip advances by one; jnz changes nothing else; the run halts
\* exactly when ip is past the last instruction.
C21_JnzAndHalt ==
    [][/\ AtInstruction /\ asm[ip + 1].op = "Jnz" =>
              \A c \in MachineCodeOf(asm[ip + 1]) :
                  /\ vm_pc' = "exec"
                  /\ ip' = IF registers["A"] # 0 THEN c[2] \div 2 ELSE ip + 1
                  /\ registers' = registers /\ output' = output /\ asm' = asm
       /\ (vm_pc = "exec" /\ vm_pc' = "halted") => ip >= Len(asm)
       /\ (vm_pc = "exec" /\ ip >= Len(asm)) => vm_pc' = "halted"]_vars

(***************************************************************************)
(* Day 16: the solver's properties.                                        *)
(***************************************************************************)
\* The two directions a quarter turn away.
QuarterTurns(d) ==
    IF d \in {"East", "West"} THEN {"North", "South"} ELSE {"East", "West"}

\* One move of a walk and its score: a step forward onto an open tile, or a
\* quarter turn on the spot.
Moves(m, n) ==
    (IF Vec2Add(n[1], as_vec(n[2])) \in m.open
     THEN {[to |-> <<Vec2Add(n[1], as_vec(n[2])), n[2]>>, score |-> 1]}
     ELSE {})
    \cup {[to |-> <<n[1], d>>, score |-> 1000] : d \in QuarterTurns(n[2])}

Least(S) == CHOOSE x \in S : \A y \in S : x <= y

\* The scores after one more move: scores is a set of <<node, score>>, the
\* least score found so far for each node that a walk reaches.
OneMoreMove(m, scores) ==
    LET found == scores \cup
                 UNION {{<<mv.to, s[2] + mv.score>> : mv \in Moves(m, s[1])} :
                        s \in scores}
    IN  {s \in found : \A t \in found : t[1] = s[1] => s[2] <= t[2]}

\* The least score of a walk of at most k moves from the start, facing East,
\* to each position and heading it reaches.
RECURSIVE WalkScores(_, _, _)
WalkScores(m, scores, k) ==
    IF k = 0 THEN scores ELSE WalkScores(m, OneMoreMove(m, scores), k - 1)

\* The least score of a walk from the start to the end tile; I64_MAX when no
\* walk reaches it.  A walk of least score visits no node twice.
BestScore(m) ==
    LET scores == WalkScores(m, {<<(<<m.start, "East">>), 0>>}, Cardinality(Nodes(m)))
    IN  Least({I64_MAX} \cup {s[2] : s \in {t \in scores : t[1][1] = m.end}})

\* C10: in a maze whose end tile can be reached, shortest_path returns the
\* least score, steps plus 1000 times the quarter turns, of a walk from the
\* start facing East to the end.
C10_ShortestPathIsMinimal ==
    ms_pc \in {"done", "panicked"} /\ BestScore(maze) < I64_MAX =>
        ms_pc = "done" /\ ms_result = Some(BestScore(maze))

\* The moves that end in node n, as <<node before, score>>.
MovesInto(m, n) ==
    (IF Vec2Add(n[1], as_vec(opposite(n[2]))) \in m.open
     THEN {<<(<<Vec2Add(n[1], as_vec(opposite(n[2]))), n[2]>>), 1>>}
     ELSE {})
    \cup {<<(<<n[1], d>>), 1000>> : d \in QuarterTurns(n[2])}

OneMoveEarlier(m, scores) ==
    LET found == scores \cup
                 UNION {{<<mv[1], s[2] + mv[2]>> : mv \in MovesInto(m, s[1])} :
                        s \in scores}
    IN  {s \in found : \A t \in found : t[1] = s[1] => s[2] <= t[2]}

\* The least score of a walk of at most k moves from each node to the end
\* tile, whatever the heading there.
RECURSIVE ScoresToEnd(_, _, _)
ScoresToEnd(m, scores, k) ==
    IF k = 0 THEN scores ELSE ScoresToEnd(m, OneMoveEarlier(m, scores), k - 1)

\* The tiles of the walks of least score from the start, facing East, to the
\* end: a walk of least score passes a node exactly when the least score to
\* the node and the least score from it add up to the least score.
TilesOfBestWalks(m) ==
    LET k == Cardinality(Nodes(m))
        from_start == WalkScores(m, {<<(<<m.start, "East">>), 0>>}, k)
        to_end == ScoresToEnd(m, {<<(<<m.end, d>>), 0>> : d \in DirSet}, k)
        best == BestScore(m)
    IN  {s[1][1] : s \in {t \in from_start :
                            \E u \in to_end : u[1] = t[1] /\ t[2] + u[2] = best}}

\* C11: after shortest_path, all_shortest_paths_nodes(end) is exactly the
\* set of tiles that lie on a walk of least score from the start to the end.
C11_AllShortestPathsTiles ==
    ms_pc = "traced" => ms_nodes = TilesOfBestWalks(maze)

(***************************************************************************)
(* Day 21: the keypads' properties.                                        *)
(***************************************************************************)
\* The key at each position of the numeric keypad and of a directional one.
NumericKeyAt ==
    [p \in {<<0, 0>>, <<1, 0>>, <<2, 0>>, <<0, 1>>, <<1, 1>>, <<2, 1>>,
            <<0, 2>>, <<1, 2>>, <<2, 2>>, <<1, 3>>, <<2, 3>>} |->
        CASE p = <<0, 0>> -> 7 [] p = <<1, 0>> -> 8 [] p = <<2, 0>> -> 9
          [] p = <<0, 1>> -> 4 [] p = <<1, 1>> -> 5 [] p = <<2, 1>> -> 6
          [] p = <<0, 2>> -> 1 [] p = <<1, 2>> -> 2 [] p = <<2, 2>> -> 3
          [] p = <<1, 3>> -> 0 [] p = <<2, 3>> -> 10]

DirectionalKeyAt ==
    [p \in {<<1, 0>>, <<2, 0>>, <<0, 1>>, <<1, 1>>, <<2, 1>>} |->
        CASE p = <<1, 0>> -> "Up" [] p = <<2, 0>> -> "A"
          [] p = <<0, 1>> -> "Left" [] p = <<1, 1>> -> "Down"
          [] p = <<2, 1>> -> "Right"]

ArrowStep(key) ==
    CASE key = "Up" -> <<0, -1>> [] key = "Down" -> <<0, 1>>
      [] key = "Left" -> <<-1, 0>> [] key = "Right" -> <<1, 0>>

\* What pressing `key` on the keypad that steers arm i does to the robots:
\* st is <<keys typed, position of the numeric arm, positions of the arms
\* at the directional keypads>>, arm 0 is the numeric one.  An arrow moves
\* arm i, never over a gap; A makes arm i press the key under it.  The set
\* of the states after the press: empty when the press is not possible.
RECURSIVE Pressed(_, _, _, _)
Pressed(code, st, i, key) ==
    IF key # "A" THEN
        IF i = 0
        THEN LET to == Vec2Add(st[2], ArrowStep(key))
             IN  IF to \in DOMAIN NumericKeyAt THEN {<<st[1], to, st[3]>>} ELSE {}
        ELSE LET to == Vec2Add(st[3][i], ArrowStep(key))
             IN  IF to \in DOMAIN DirectionalKeyAt
                 THEN {<<st[1], st[2], [st[3] EXCEPT ![i] = to]>>}
                 ELSE {}
    ELSE IF i = 0
        THEN IF st[1] < Len(code) /\ NumericKeyAt[st[2]] = code[st[1] + 1]
             THEN {<<st[1] + 1, st[2], st[3]>>}
             ELSE {}
        ELSE Pressed(code, st, i - 1, DirectionalKeyAt[st[3][i]])

\* The least number of presses on the outermost keypad after which the code
\* is typed, by breadth-first search; -1 when it cannot be typed.
RECURSIVE SearchPresses(_, _, _, _, _)
SearchPresses(code, d, frontier, seen, k) ==
    IF \E st \in frontier : st[1] = Len(code) THEN k
    ELSE IF frontier = {} THEN -1
    ELSE LET next == UNION {UNION {Pressed(code, st, d, key) : key \in Dir} :
                            st \in frontier} \ seen
         IN  SearchPresses(code, d, next, seen \cup next, k + 1)

FewestPresses(code, d) ==
    LET start == <<0, <<2, 3>>, [i \in 1..d |-> <<2, 0>>]>>
    IN  SearchPresses(code, d, {start}, {start}, 0)

\* C12: keypad_path(A, code, [], d) is the length of the shortest sequence
\* of presses on the outermost directional keypad that makes the numeric
\* robot type the code through d robots at directional keypads, no arm
\* ever being over a gap.
C12_KeypadPathIsShortest ==
    kp_pc = "done" => kp_cost = Some(FewestPresses(kp_code, kp_depth))

\* C12 witness: a code of two keys that starts in the bottom row and goes to
\* the left column, where the horizontal-first path would cross the gap, was
\* counted with two robots.
C12_Witness ==
    /\ kp_pc = "done"
    /\ kp_code = <<7, 0>> /\ kp_depth = 2
    /\ kp_cost = Some(FewestPresses(kp_code, kp_depth))

(***************************************************************************)
(* Day 13: the claw machines' properties.                                  *)
(***************************************************************************)
\* A and B are linearly independent: their determinant is not 0.
Independent(m) ==
    m.button_a[1] * m.button_b[2] - m.button_a[2] * m.button_b[1] # 0

\* By Cramer's rule a solution is a quotient by the determinant, so it is no
\* larger than the numerators can be.
Presses == (-(4 * MaxCoord * MaxCoord))..(4 * MaxCoord * MaxCoord)

\* The integer solutions <<a, b>> of a * A + b * B = P.
Solutions(m, offset) ==
    {ab \in Presses \X Presses :
        /\ ab[1] * m.button_a[1] + ab[2] * m.button_b[1] = m.prize[1] + offset[1]
        /\ ab[1] * m.button_a[2] + ab[2] * m.button_b[2] = m.prize[2] + offset[2]}

\* C13: for linearly independent buttons, solve_with_offset returns
\* Some((a, b)) exactly when integers a, b with a * A + b * B = P exist, and
\* (a, b) is then that solution; otherwise it returns None and the machine
\* adds 0 tokens.
C13_SolvesTheMachine ==
    claw_pc = "done" /\ Independent(claw_machine) =>
        LET sols == Solutions(claw_machine, claw_offset)
        IN  /\ sols # {} => claw_solution # None /\ Unwrap(claw_solution) \in sols
            /\ sols = {} => claw_solution = None /\ claw_tokens = 0


(***************************************************************************)
(* Day 9, part one, as stated: the disk is the blocks of the files and the *)
(* gaps in the order of the map, the file at the even index i having the   *)
(* id i / 2; the last file block moves into the leftmost free block while  *)
(* a free block lies left of a file block.                                 *)
(***************************************************************************)
Free == -1

RECURSIVE Blocks(_, _)
Blocks(disk_map, i) ==
    IF i >= Len(disk_map) THEN <<>>
    ELSE Repeat(IF i % 2 = 0 THEN i \div 2 ELSE Free, At(disk_map, i))
             \o Blocks(disk_map, i + 1)

FilePositions(disk) == {p \in 1..Len(disk) : disk[p] # Free}
FreePositions(disk) == {p \in 1..Len(disk) : disk[p] = Free}

Largest(S)  == CHOOSE x \in S : \A y \in S : y <= x
Smallest(S) == CHOOSE x \in S : \A y \in S : x <= y

RECURSIVE Compacted(_)
Compacted(disk) ==
    IF FilePositions(disk) = {} \/ FreePositions(disk) = {} THEN disk
    ELSE LET from == Largest(FilePositions(disk))
             to   == Smallest(FreePositions(disk))
         IN  IF to > from THEN disk
             ELSE Compacted([disk EXCEPT ![to] = disk[from], ![from] = Free])

RECURSIVE PositionTimesId(_, _)
PositionTimesId(disk, p) ==
    IF p > Len(disk) THEN 0
    ELSE (IF disk[p] = Free THEN 0 ELSE (p - 1) * disk[p]) + PositionTimesId(disk, p + 1)

StatedChecksum(disk_map) == PositionTimesId(Compacted(Blocks(disk_map, 0)), 1)

\* C14: for every disk map fragmented_checksum returns, and returns the sum of
\* position x file id over the disk compacted block by block.
C14_FragmentedChecksum ==
    afs_pc \in {"done", "panic"} =>
        afs_pc = "done" /\ checksum = StatedChecksum(raw_disk_map)

Occurrences(s, x) == Cardinality({p \in 1..Len(s) : s[p] = x})

NoBlockTwice(blocks, disk_map) ==
    \A p \in 1..Len(blocks) :
        /\ 2 * blocks[p] < Len(disk_map)
        /\ Occurrences(blocks, blocks[p]) <= At(disk_map, 2 * blocks[p])

\* C15: every call of prev made while a gap is filled returns the index of a
\* file (an even index) greater than the front disk_map_index, decrements a
\* positive remaining count, and no block of a file is counted twice.
C15_CursorStaysBehindTheFront ==
    [][/\ AfsPull =>
            /\ prev_result' # None
            /\ Unwrap(prev_result') % 2 = 0
            /\ Unwrap(prev_result') > disk_map_index
            /\ segments_cursor'.remaining >= 0
       /\ NoBlockTwice(counted', raw_disk_map)]_vars


(***************************************************************************)
(* Day 19 as stated: the arrangements of a design are the distinct         *)
(* sequences of patterns whose concatenation is the design.                *)
(***************************************************************************)
RECURSIVE Concatenation(_)
Concatenation(ps) == IF ps = <<>> THEN <<>> ELSE Head(ps) \o Concatenation(Tail(ps))

\* Every pattern has a byte, so no arrangement is longer than the design.
Arrangements(patterns, design) ==
    LET available == {patterns[i] : i \in 1..Len(patterns)}
    IN  {ps \in UNION {[1..n -> available] : n \in 0..Len(design)} :
            Concatenation(ps) = design}

\* C16: test_all returns the number of arrangements of the design, every cache
\* entry holds the number of arrangements of its tail, part one counts the
\* designs that have an arrangement and part two sums the numbers.
C16_CountsArrangements ==
    /\ \A i \in 1..Len(ot_matched) :
           ot_matched[i] = Cardinality(Arrangements(ot_patterns, ot_designs[i]))
    /\ \A e \in ot_cache : e[2] = Cardinality(Arrangements(ot_patterns, e[1]))
    /\ ot_pc = "done" =>
           ot_result = IF ot_part = 1
                       THEN Cardinality({i \in 1..Len(ot_designs) :
                                Arrangements(ot_patterns, ot_designs[i]) # {}})
                       ELSE VecSum([i \in 1..Len(ot_designs) |->
                                Cardinality(Arrangements(ot_patterns, ot_designs[i]))])


(***************************************************************************)
(* SubsetGenerator as stated.                                              *)
(***************************************************************************)
\* the strictly increasing lists of m indexes of a set of n elements
IncreasingLists(m, n) ==
    {s \in [1..m -> 0..(n - 1)] : \A i \in 1..(m - 1) : s[i] < s[i + 1]}

LexLess(s, t) ==
    \E i \in 1..Len(s) : s[i] < t[i] /\ \A j \in 1..(i - 1) : s[j] = t[j]

RECURSIVE Factorial(_)
Factorial(k) == IF k = 0 THEN 1 ELSE k * Factorial(k - 1)

Choose(n, m) == Factorial(n) \div (Factorial(m) * Factorial(n - m))

\* C17: with 2 <= m the i-th list next() yields is the i-th of the m-element
\* subsets of {0..n-1} in lexicographic order, as a strictly increasing list;
\* next() returns None only after all C(n, m) of them (at once when n < m),
\* and nothing is yielded after a None.
C17_SubsetsInLexicographicOrder ==
    (sg_pc = "ready" /\ sg_m >= 2) =>
        /\ \A i \in 1..Len(sg_yielded) :
               /\ sg_yielded[i] \in IncreasingLists(sg_m, sg_n)
               /\ Cardinality({s \in IncreasingLists(sg_m, sg_n) :
                                   LexLess(s, sg_yielded[i])}) = i - 1
        /\ Len(sg_yielded) >= 1 => sg_yielded[1] = [k \in 1..sg_m |-> k - 1]
        /\ sg_nones > 0 =>
               /\ Len(sg_yielded) = Cardinality(IncreasingLists(sg_m, sg_n))
               /\ Len(sg_yielded) = IF sg_n < sg_m THEN 0 ELSE Choose(sg_n, sg_m)

C17_Witness ==
    /\ sg_pc = "ready" /\ sg_m = 2 /\ sg_n = MaxSetLen
    /\ sg_nones = MaxNone /\ Len(sg_yielded) = Choose(MaxSetLen, 2)


(***************************************************************************)
(* SeqGenerator as stated.                                                 *)
(***************************************************************************)
RECURSIVE Power(_, _)
Power(b, e) == IF e = 0 THEN 1 ELSE b * Power(b, e - 1)

\* C18: with m >= 1 and n >= 1 every slice next() yields is a sequence of
\* length n over 0..m-1, no sequence is yielded twice, the first is all zeros,
\* and next() returns None only after all m^n of them and yields nothing
\* afterwards.
C18_AllSequencesOnce ==
    (sq_pc = "ready" /\ sq_m >= 1 /\ sq_n >= 1) =>
        /\ \A i \in 1..Len(sq_yielded) : sq_yielded[i] \in [1..sq_n -> 0..(sq_m - 1)]
        /\ \A i, j \in 1..Len(sq_yielded) : sq_yielded[i] = sq_yielded[j] => i = j
        /\ Len(sq_yielded) >= 1 => sq_yielded[1] = [k \in 1..sq_n |-> 0]
        /\ sq_nones > 0 => Len(sq_yielded) = Power(sq_m, sq_n)

C18_Witness ==
    /\ sq_pc = "ready" /\ sq_m = MaxOps /\ sq_n = MaxSeqLen
    /\ sq_nones = MaxNone /\ Len(sq_yielded) = Power(MaxOps, MaxSeqLen)


(***************************************************************************)
(* Day 4, part one, as stated.                                             *)
(***************************************************************************)
\* the number of places of the byte sequence where the word begins
WordOccurrences(bytes, word) ==
    Cardinality({p \in 1..(Len(bytes) - Len(word) + 1) :
                    SubSeq(bytes, p, p + Len(word) - 1) = word})

\* C19: the total find_xmas returns is the number of occurrences of XMAS plus
\* the number of occurrences of SAMX in the visited byte sequence.
C19_TotalIsXmasPlusSamx ==
    xw_pc = "done" =>
        xw_total = WordOccurrences(xw_visited, <<"X", "M", "A", "S">>)
                     + WordOccurrences(xw_visited, <<"S", "A", "M", "X">>)

C19_Witness ==
    /\ xw_pc = "done" /\ xw_total = 2
    /\ xw_visited = <<"X", "M", "A", "S", "A", "M", "X">>


(***************************************************************************)
(* Day 24, part one, as stated.  The input wires are the wires the file    *)
(* gives a value; a circuit is well formed when no gate drives an input    *)
(* wire, every other wire of a gate is the output of exactly one gate and  *)
(* no gate reads its own output through other gates.                       *)
(***************************************************************************)
GateWires(gs) == UNION {{gs[i].left, gs[i].right, gs[i].output} : i \in 1..Len(gs)}

DrivenBy(gs, w) == {i \in 1..Len(gs) : gs[i].output = w}

WellFormedCircuit(gs, inputs) ==
    /\ \A w \in DOMAIN inputs : DrivenBy(gs, w) = {}
    /\ \A w \in GateWires(gs) \ DOMAIN inputs : Cardinality(DrivenBy(gs, w)) = 1
    /\ Acyclic(gs)

\* the gate expression of a wire: AND, OR, XOR of the expressions of its inputs
RECURSIVE GateExpression(_, _, _)
GateExpression(gs, inputs, w) ==
    IF w \in DOMAIN inputs THEN inputs[w]
    ELSE LET g == gs[CHOOSE i \in 1..Len(gs) : gs[i].output = w]
             l == GateExpression(gs, inputs, g.left)
             r == GateExpression(gs, inputs, g.right)
         IN  CASE g.op = "And" -> (l = TRUE /\ r = TRUE)
               [] g.op = "Or"  -> ~(l = FALSE /\ r = FALSE)
               [] g.op = "Xor" -> (l = TRUE) # (r = TRUE)

ZWires(gs, inputs) == {w \in GateWires(gs) \cup DOMAIN inputs : w[1] = "z"}

\* z00, z01, .. as far as they follow each other
ConsecutiveZ(gs, inputs) ==
    {i \in 0..Cardinality(ZWires(gs, inputs)) :
        \A j \in 0..i : <<"z", j>> \in ZWires(gs, inputs)}

\* the sum of z_i * 2^i in binary: the positions i with z_i = 1
StatedZValue(gs, inputs) ==
    {i \in ConsecutiveZ(gs, inputs) : GateExpression(gs, inputs, <<"z", i>>)}

\* C20: on a well formed circuit eval does not panic, keeps the values of the
\* input wires, gives every z wire the value of its gate expression, and
\* find_z_value returns the sum of z_i * 2^i over z00, z01, ...
C20_EvalAndDecode ==
    WellFormedCircuit(gates, original_values) =>
        /\ cw_pc # "panic"
        /\ \A w \in DOMAIN original_values :
               w \in DOMAIN values /\ values[w] = original_values[w]
        /\ cw_pc = "done" =>
               /\ \A w \in ZWires(gates, original_values) :
                      w \in DOMAIN values
                          /\ values[w] = GateExpression(gates, original_values, w)
               /\ Unwrap(cw_result) = StatedZValue(gates, original_values)


(***************************************************************************)
(* Day 9, part two, as stated: each file, from the largest id down, moves  *)
(* once, whole, to the leftmost free blocks left of it that hold it.       *)
(***************************************************************************)
DiskMapOf(segs) == [i \in 1..Len(segs) |-> segs[i].length]

PositionsOf(disk, id) == {p \in 1..Len(disk) : disk[p] = id}

\* the first blocks of the runs of `length` free blocks left of position p
FreeRuns(disk, length, p) ==
    {q \in 1..(p - length) : \A k \in q..(q + length - 1) : disk[k] = Free}

MoveWhole(disk, id) ==
    LET at == PositionsOf(disk, id)
    IN  IF at = {} \/ FreeRuns(disk, Cardinality(at), Smallest(at)) = {} THEN disk
        ELSE LET to == Smallest(FreeRuns(disk, Cardinality(at), Smallest(at)))
             IN  [p \in 1..Len(disk) |->
                     IF p \in to..(to + Cardinality(at) - 1) THEN id
                     ELSE IF p \in at THEN Free
                     ELSE disk[p]]

RECURSIVE Defragmented(_, _)
Defragmented(disk, id) ==
    IF id < 0 THEN disk ELSE Defragmented(MoveWhole(disk, id), id - 1)

StatedDefragmentedChecksum(disk_map) ==
    PositionTimesId(Defragmented(Blocks(disk_map, 0), Len(disk_map) \div 2), 1)

RECURSIVE TotalLength(_)
TotalLength(segs) ==
    IF segs = <<>> THEN 0 ELSE Head(segs).length + TotalLength(Tail(segs))

\* C22: defragmented_checksum is the sum of position x file id over the disk
\* after the whole-file moves, and rellocate_segment keeps the total length of
\* the segment list.
C22_DefragmentedChecksum ==
    /\ TotalLength(new_segments) = TotalLength(segments)
    /\ df_pc = "done" =>
           df_checksum = StatedDefragmentedChecksum(DiskMapOf(segments))


(***************************************************************************)
(* Day 5 as stated.                                                        *)
(***************************************************************************)
\* some rule a|b has b placed before a
BreaksARule(rules, pages) ==
    \E i, j \in 1..Len(pages) : j < i /\ <<pages[i], pages[j]>> \in rules

\* the orderings of the pages of an update
Orderings(pages) ==
    {[i \in 1..Len(pages) |-> pages[p[i]]] :
        p \in {q \in [1..Len(pages) -> 1..Len(pages)] :
                  \A a, b \in 1..Len(pages) : q[a] = q[b] => a = b}}

\* C23: when some ordering of the update satisfies the rules, with do_fix the
\* returned pages are an ordering of the update that breaks no rule, without
\* do_fix they are the update itself, and the flag is true exactly when the
\* update breaks no rule.
C23_ValidatePageOrder ==
    (po_pc = "done" /\ \E o \in Orderings(po_update) : ~BreaksARule(po_rules, o)) =>
        /\ po_do_fix => po_pages \in Orderings(po_update)
                            /\ ~BreaksARule(po_rules, po_pages)
        /\ ~po_do_fix => po_pages = po_update
        /\ po_valid = ~BreaksARule(po_rules, po_update)


(***************************************************************************)
(* Day 15: the warehouse's properties.                                     *)
(***************************************************************************)
\* The tiles of the box that lies on p, and the tiles a move pushes: those
\* of the box in front of the robot and of every box in front of a pushed tile.
Whole(m, p) ==
    CASE m[p].kind = "Box"       -> {p}
      [] m[p].kind = "LargeBoxL" -> {p, Vec2Add(p, <<1, 0>>)}
      [] m[p].kind = "LargeBoxR" -> {p, Vec2Add(p, <<-1, 0>>)}
      [] OTHER -> {}

RECURSIVE PushedFrom(_, _, _)
PushedFrom(m, S, d) ==
    LET T == S \cup UNION {Whole(m, Vec2Add(p, dir_as_vec(d))) : p \in S}
    IN  IF T = S THEN S ELSE PushedFrom(m, T, d)

Pushed(m, from, d) == PushedFrom(m, Whole(m, Vec2Add(from, dir_as_vec(d))), d)

\* The move is stopped: a wall in front of the robot or of a pushed tile.
Stopped(m, from, d) ==
    \/ m[Vec2Add(from, dir_as_vec(d))].kind = "Wall"
    \/ \E p \in Pushed(m, from, d) : m[Vec2Add(p, dir_as_vec(d))].kind = "Wall"

\* The map with every pushed tile one tile further in the direction d.
Shifted(m, from, d) ==
    [p \in DOMAIN m |->
        IF Vec2Sub(p, dir_as_vec(d)) \in Pushed(m, from, d)
        THEN m[Vec2Sub(p, dir_as_vec(d))]
        ELSE IF p \in Pushed(m, from, d) THEN Empty ELSE m[p]]

\* Small boxes are told apart by nothing the program shows: their ids are left
\* out of the comparison of two maps.
Shown(m) == [p \in DOMAIN m |-> IF m[p].kind = "Box" THEN Box(0) ELSE m[p]]

\* C24: on the inflated warehouse, after any moves: the walls are where they
\* were, the set of box ids is the same, every LargeBoxL(id) has LargeBoxR(id)
\* to its right and every LargeBoxR(id) has LargeBoxL(id) to its left, and the
\* robot stands on an Empty tile.
C24_InflatedWarehouseInvariants ==
    (wh_pc = "replay" /\ wh_inflated) =>
        /\ WallsOf(wh_map) = wh_walls
        /\ BoxIds(wh_map) = wh_ids
        /\ \A p \in DOMAIN wh_map :
              /\ wh_map[p].kind = "LargeBoxL" =>
                    /\ Vec2Add(p, <<1, 0>>) \in DOMAIN wh_map
                    /\ wh_map[Vec2Add(p, <<1, 0>>)] = LargeBoxR(wh_map[p].id)
              /\ wh_map[p].kind = "LargeBoxR" =>
                    /\ Vec2Add(p, <<-1, 0>>) \in DOMAIN wh_map
                    /\ wh_map[Vec2Add(p, <<-1, 0>>)] = LargeBoxL(wh_map[p].id)
        /\ wh_map[wh_pos] = Empty

\* A move up has just pushed a large box that stands on an odd column (it was
\* pushed sideways before).
C24_Witness ==
    /\ wh_pc = "replay" /\ wh_inflated /\ wh_dir = "Up"
    /\ wh_pos # wh_from /\ wh_map # wh_before
    /\ \E e \in current_move_set :
          /\ e[2].kind = "LargeBoxL" /\ e[1][1] % 2 = 1
          /\ wh_map[e[1]] = e[2]
          /\ wh_before[Vec2Add(e[1], <<0, 1>>)] = e[2]

\* C25: a step is all or nothing, in both parts.  Stopped by a wall, in front
\* of the robot or of a pushed box: the map and the position are unchanged.
\* Otherwise the robot advances one tile, every pushed box advances one tile,
\* every other tile is unchanged.
C25_StepIsAllOrNothing ==
    (wh_pc = "replay" /\ wh_dir # "none") =>
        IF Stopped(wh_before, wh_from, wh_dir)
        THEN /\ Shown(wh_map) = Shown(wh_before)
             /\ wh_pos = wh_from
        ELSE /\ wh_pos = Vec2Add(wh_from, dir_as_vec(wh_dir))
             /\ Shown(wh_map) = Shown(Shifted(wh_before, wh_from, wh_dir))

====
